---- MODULE Spec2Model ----
(***************************************************************************)
(* Model of the SID tune player of papilio_audio (src/src/SIDPlayer.cpp):  *)
(* the 6502 interpreter (getMem/setMem, getAddr/setAddr/putAddr, branch,   *)
(* cpuStep, cpuJsr), the PSID header parser and the tick driven playback   *)
(* scheduler.  The interpreter steps are separate actions, so a handler    *)
(* that runs an emulated routine occupies the main loop until the routine  *)
(* returns to address 0, while the timer callback may fire at any point.   *)
(* The register-dump frame player (src/src/YMPlayer.cpp) is modelled next  *)
(* to it, as the record ymPlayer and the operators ymPlay ... ymUpdate.    *)
(***************************************************************************)
EXTENDS Integers, Sequences, FiniteSets, TLC

VARIABLES
    _playing, _fileLoaded, _timerTick,          \* SIDPlayer.h:132-134
    _loadAddr, _initAddr, _playAddr,            \* SIDPlayer.h:137-139
    _numSongs, _currentSong,                    \* SIDPlayer.h:140-141
    _title, _author, _copyright,                \* SIDPlayer.h:142-144
    _memory,                                    \* SIDPlayer.h:147
    _a, _x, _y, _s, _p, _pc, _cycles,           \* SIDPlayer.h:148-150
    mainPc,     \* where the main loop is: "idle", or inside the cpuJsr loop of a handler
    callLog,    \* the handler in progress (or the last one): its call, then what it did, in program order
    ticksSince, \* timerCallback() calls since the play routine last returned, capped at MaxTicks
    ymPlayer    \* the YMPlayer object: _playing, _paused, _volume and _file (SIDPlayer.h:209-213)

\* ---- CPU flags (SIDPlayer.h:23-30)
FLAG_N == 128
FLAG_V == 64
FLAG_B == 16
FLAG_D == 8
FLAG_I == 4
FLAG_Z == 2
FLAG_C == 1

\* ---- addressing modes (SIDPlayer.cpp:21-35)
MODE_IMP == 0
MODE_IMM == 1
MODE_ABS == 2
MODE_ABSX == 3
MODE_ABSY == 4
MODE_ZP == 6
MODE_ZPX == 7
MODE_ZPY == 8
MODE_IND == 9
MODE_INDX == 10
MODE_INDY == 11
MODE_ACC == 12
MODE_REL == 13
MODE_XXX == 14

\* ---- mnemonics, in the order of the enum (SIDPlayer.cpp:38-44)
OPadc == 0
OPand == 1
OPasl == 2
OPbcc == 3
OPbcs == 4
OPbeq == 5
OPbit == 6
OPbmi == 7
OPbne == 8
OPbpl == 9
OPbrk == 10
OPbvc == 11
OPbvs == 12
OPclc == 13
OPcld == 14
OPcli == 15
OPclv == 16
OPcmp == 17
OPcpx == 18
OPcpy == 19
OPdec == 20
OPdex == 21
OPdey == 22
OPeor == 23
OPinc == 24
OPinx == 25
OPiny == 26
OPjmp == 27
OPjsr == 28
OPlda == 29
OPldx == 30
OPldy == 31
OPlsr == 32
OPnop == 33
OPora == 34
OPpha == 35
OPphp == 36
OPpla == 37
OPplp == 38
OProl == 39
OPror == 40
OPrti == 41
OPrts == 42
OPsbc == 43
OPsec == 44
OPsed == 45
OPsei == 46
OPsta == 47
OPstx == 48
OPsty == 49
OPtax == 50
OPtay == 51
OPtsx == 52
OPtxa == 53
OPtxs == 54
OPtya == 55
OPxxx == 56

\* ---- decode tables (SIDPlayer.cpp:46-82); entry opc + 1 is the one of opcode opc
opcodes == <<
    OPbrk, OPora, OPxxx, OPxxx, OPxxx, OPora, OPasl, OPxxx, OPphp, OPora, OPasl, OPxxx, OPxxx, OPora, OPasl, OPxxx,
    OPbpl, OPora, OPxxx, OPxxx, OPxxx, OPora, OPasl, OPxxx, OPclc, OPora, OPxxx, OPxxx, OPxxx, OPora, OPasl, OPxxx,
    OPjsr, OPand, OPxxx, OPxxx, OPbit, OPand, OProl, OPxxx, OPplp, OPand, OProl, OPxxx, OPbit, OPand, OProl, OPxxx,
    OPbmi, OPand, OPxxx, OPxxx, OPxxx, OPand, OProl, OPxxx, OPsec, OPand, OPxxx, OPxxx, OPxxx, OPand, OProl, OPxxx,
    OPrti, OPeor, OPxxx, OPxxx, OPxxx, OPeor, OPlsr, OPxxx, OPpha, OPeor, OPlsr, OPxxx, OPjmp, OPeor, OPlsr, OPxxx,
    OPbvc, OPeor, OPxxx, OPxxx, OPxxx, OPeor, OPlsr, OPxxx, OPcli, OPeor, OPxxx, OPxxx, OPxxx, OPeor, OPlsr, OPxxx,
    OPrts, OPadc, OPxxx, OPxxx, OPxxx, OPadc, OPror, OPxxx, OPpla, OPadc, OPror, OPxxx, OPjmp, OPadc, OPror, OPxxx,
    OPbvs, OPadc, OPxxx, OPxxx, OPxxx, OPadc, OPror, OPxxx, OPsei, OPadc, OPxxx, OPxxx, OPxxx, OPadc, OPror, OPxxx,
    OPxxx, OPsta, OPxxx, OPxxx, OPsty, OPsta, OPstx, OPxxx, OPdey, OPxxx, OPtxa, OPxxx, OPsty, OPsta, OPstx, OPxxx,
    OPbcc, OPsta, OPxxx, OPxxx, OPsty, OPsta, OPstx, OPxxx, OPtya, OPsta, OPtxs, OPxxx, OPxxx, OPsta, OPxxx, OPxxx,
    OPldy, OPlda, OPldx, OPxxx, OPldy, OPlda, OPldx, OPxxx, OPtay, OPlda, OPtax, OPxxx, OPldy, OPlda, OPldx, OPxxx,
    OPbcs, OPlda, OPxxx, OPxxx, OPldy, OPlda, OPldx, OPxxx, OPclv, OPlda, OPtsx, OPxxx, OPldy, OPlda, OPldx, OPxxx,
    OPcpy, OPcmp, OPxxx, OPxxx, OPcpy, OPcmp, OPdec, OPxxx, OPiny, OPcmp, OPdex, OPxxx, OPcpy, OPcmp, OPdec, OPxxx,
    OPbne, OPcmp, OPxxx, OPxxx, OPxxx, OPcmp, OPdec, OPxxx, OPcld, OPcmp, OPxxx, OPxxx, OPxxx, OPcmp, OPdec, OPxxx,
    OPcpx, OPsbc, OPxxx, OPxxx, OPcpx, OPsbc, OPinc, OPxxx, OPinx, OPsbc, OPnop, OPxxx, OPcpx, OPsbc, OPinc, OPxxx,
    OPbeq, OPsbc, OPxxx, OPxxx, OPxxx, OPsbc, OPinc, OPxxx, OPsed, OPsbc, OPxxx, OPxxx, OPxxx, OPsbc, OPinc, OPxxx
    >>

modes == <<
    MODE_IMP, MODE_INDX, MODE_XXX, MODE_XXX, MODE_ZP, MODE_ZP, MODE_ZP, MODE_XXX, MODE_IMP, MODE_IMM, MODE_ACC, MODE_XXX, MODE_ABS, MODE_ABS, MODE_ABS, MODE_XXX,
    MODE_REL, MODE_INDY, MODE_XXX, MODE_XXX, MODE_XXX, MODE_ZPX, MODE_ZPX, MODE_XXX, MODE_IMP, MODE_ABSY, MODE_XXX, MODE_XXX, MODE_XXX, MODE_ABSX, MODE_ABSX, MODE_XXX,
    MODE_ABS, MODE_INDX, MODE_XXX, MODE_XXX, MODE_ZP, MODE_ZP, MODE_ZP, MODE_XXX, MODE_IMP, MODE_IMM, MODE_ACC, MODE_XXX, MODE_ABS, MODE_ABS, MODE_ABS, MODE_XXX,
    MODE_REL, MODE_INDY, MODE_XXX, MODE_XXX, MODE_XXX, MODE_ZPX, MODE_ZPX, MODE_XXX, MODE_IMP, MODE_ABSY, MODE_XXX, MODE_XXX, MODE_XXX, MODE_ABSX, MODE_ABSX, MODE_XXX,
    MODE_IMP, MODE_INDX, MODE_XXX, MODE_XXX, MODE_ZP, MODE_ZP, MODE_ZP, MODE_XXX, MODE_IMP, MODE_IMM, MODE_ACC, MODE_XXX, MODE_ABS, MODE_ABS, MODE_ABS, MODE_XXX,
    MODE_REL, MODE_INDY, MODE_XXX, MODE_XXX, MODE_XXX, MODE_ZPX, MODE_ZPX, MODE_XXX, MODE_IMP, MODE_ABSY, MODE_XXX, MODE_XXX, MODE_XXX, MODE_ABSX, MODE_ABSX, MODE_XXX,
    MODE_IMP, MODE_INDX, MODE_XXX, MODE_XXX, MODE_ZP, MODE_ZP, MODE_ZP, MODE_XXX, MODE_IMP, MODE_IMM, MODE_ACC, MODE_XXX, MODE_IND, MODE_ABS, MODE_ABS, MODE_XXX,
    MODE_REL, MODE_INDY, MODE_XXX, MODE_XXX, MODE_XXX, MODE_ZPX, MODE_ZPX, MODE_XXX, MODE_IMP, MODE_ABSY, MODE_XXX, MODE_XXX, MODE_XXX, MODE_ABSX, MODE_ABSX, MODE_XXX,
    MODE_XXX, MODE_INDX, MODE_XXX, MODE_XXX, MODE_ZP, MODE_ZP, MODE_ZP, MODE_XXX, MODE_IMP, MODE_XXX, MODE_IMP, MODE_XXX, MODE_ABS, MODE_ABS, MODE_ABS, MODE_XXX,
    MODE_REL, MODE_INDY, MODE_XXX, MODE_XXX, MODE_ZPX, MODE_ZPX, MODE_ZPY, MODE_XXX, MODE_IMP, MODE_ABSY, MODE_IMP, MODE_XXX, MODE_XXX, MODE_ABSX, MODE_XXX, MODE_XXX,
    MODE_IMM, MODE_INDX, MODE_IMM, MODE_XXX, MODE_ZP, MODE_ZP, MODE_ZP, MODE_XXX, MODE_IMP, MODE_IMM, MODE_IMP, MODE_XXX, MODE_ABS, MODE_ABS, MODE_ABS, MODE_XXX,
    MODE_REL, MODE_INDY, MODE_XXX, MODE_XXX, MODE_ZPX, MODE_ZPX, MODE_ZPY, MODE_XXX, MODE_IMP, MODE_ABSY, MODE_IMP, MODE_XXX, MODE_ABSX, MODE_ABSX, MODE_ABSY, MODE_XXX,
    MODE_IMM, MODE_INDX, MODE_XXX, MODE_XXX, MODE_ZP, MODE_ZP, MODE_ZP, MODE_XXX, MODE_IMP, MODE_IMM, MODE_IMP, MODE_XXX, MODE_ABS, MODE_ABS, MODE_ABS, MODE_XXX,
    MODE_REL, MODE_INDY, MODE_XXX, MODE_XXX, MODE_XXX, MODE_ZPX, MODE_ZPX, MODE_XXX, MODE_IMP, MODE_ABSY, MODE_XXX, MODE_XXX, MODE_XXX, MODE_ABSX, MODE_ABSX, MODE_XXX,
    MODE_IMM, MODE_INDX, MODE_XXX, MODE_XXX, MODE_ZP, MODE_ZP, MODE_ZP, MODE_XXX, MODE_IMP, MODE_IMM, MODE_IMP, MODE_XXX, MODE_ABS, MODE_ABS, MODE_ABS, MODE_XXX,
    MODE_REL, MODE_INDY, MODE_XXX, MODE_XXX, MODE_XXX, MODE_ZPX, MODE_ZPX, MODE_XXX, MODE_IMP, MODE_ABSY, MODE_XXX, MODE_XXX, MODE_XXX, MODE_ABSX, MODE_ABSX, MODE_XXX
    >>

\* ---- fixed width arithmetic of uint8_t and uint16_t.  uint32_t _cycles is
\* set to 0 by every cpuStep and changes by less than 16 within one, so it
\* never wraps and is kept as a plain integer.
U8(v) == v % 256

U16(v) == v % 65536

\* bit k of v, for the C operators & | ^ on bytes
Bit(v, k) == (v \div (2 ^ k)) % 2

And8(u, v) ==
    LET b(k) == (2 ^ k) * Bit(u, k) * Bit(v, k)
    IN  b(0) + b(1) + b(2) + b(3) + b(4) + b(5) + b(6) + b(7)

Or8(u, v) == u + v - And8(u, v)

Xor8(u, v) == u + v - 2 * And8(u, v)

\* ---- uint8_t _memory[65536] (SIDPlayer.h:147): the array is kept as the
\* function from the addresses that hold a non-zero byte to that byte, every
\* other address holding 0; MemPut keeps that form, so two equal arrays are
\* equal functions.
MemGet(mem, addr) == IF addr \in DOMAIN mem THEN mem[addr] ELSE 0

MemPut(mem, addr, value) ==
    IF value = 0
    THEN [k \in (DOMAIN mem) \ {addr} |-> mem[k]]
    ELSE [k \in (DOMAIN mem) \cup {addr} |-> IF k = addr THEN value ELSE mem[k]]

ZeroMem == [k \in {} |-> 0]

\* ---- The interpreter works on a record c of the CPU registers, the memory
\* and the call log; val carries the value a C function returns.

\* a getMem without the special case of $DD0D
getMemPlain(c, addr) == [c EXCEPT !.val = MemGet(c.mem, addr)]

\* uint8_t SIDPlayer::getMem(uint16_t addr)
getMem(c, addr) ==
    IF addr = \Hdd0d
    THEN [c EXCEPT !.mem = MemPut(@, addr, 0), !.val = 0]
    ELSE [c EXCEPT !.val = MemGet(c.mem, addr)]

\* a window of the 32 register addresses only
InSidWindowNarrow(addr) == addr \in 54272 .. 54303

\* (addr & 0xfc00) == 0xd400
InSidWindow(addr) == (addr \div 1024) * 1024 = \Hd400

\* a setMem that hands a write in the window to the device and stores nothing
setMemDeviceOnly(c, addr, value) ==
    IF InSidWindow(addr)
    THEN [c EXCEPT !.log = Append(@, <<"w", addr % 32, value>>)]
    ELSE [c EXCEPT !.mem = MemPut(@, addr, value)]

\* void SIDPlayer::setMem(uint16_t addr, uint8_t value): a write into
\* $D400-$D7FF goes to the device register addr & 31 first.
setMem(c, addr, value) ==
    [c EXCEPT !.log = IF InSidWindow(addr) THEN Append(@, <<"w", addr % 32, value>>) ELSE @,
              !.mem = MemPut(@, addr, value)]

HasFlag(p, flag) == (p \div flag) % 2 = 1

\* inline void setFlags(uint8_t& p, uint8_t flag, bool cond); flag is one bit
setFlags(p, flag, cond) ==
    IF cond THEN (IF HasFlag(p, flag) THEN p ELSE p + flag)
            ELSE (IF HasFlag(p, flag) THEN p - flag ELSE p)

\* getMem(_pc++): the byte at _pc in val, _pc advanced
Fetch(c) == [getMem(c, c.pc) EXCEPT !.pc = U16(@ + 1)]

AddCycles(c, n) == [c EXCEPT !.cycles = @ + n]

\* ad |= getMem(_pc++) << 8, the low byte being lo.val
FetchHigh(lo) == [Fetch(lo) EXCEPT !.val = lo.val + 256 * @]

\* an operand fetch that consumes the low byte only
FetchWordShort(c) == Fetch(c)

\* ad = getMem(_pc++); ad |= getMem(_pc++) << 8: the operand word in val
FetchWord(c) == FetchHigh(Fetch(c))

\* a pointer whose high byte is fetched from the cell after ad, page zero or not
ZpWordHighPastPage(lo, ad) == [getMem(lo, (ad % 256) + 1) EXCEPT !.val = lo.val + 256 * @]

\* ad2 |= getMem((ad + 1) & 0xff) << 8, the low byte being lo.val
ZpWordHigh(lo, ad) == [getMem(lo, (ad + 1) % 256) EXCEPT !.val = lo.val + 256 * @]

\* ad2 = getMem(ad & 0xff); ad2 |= getMem((ad + 1) & 0xff) << 8: the pointer
\* held in page zero at ad, in val
ZpWord(c, ad) == ZpWordHigh(getMem(c, ad % 256), ad)

\* the extra cycle of an indexed mode: the high bytes of ad and ad2 differ
PageCross(ad, ad2) == (ad2 \div 256) # (ad \div 256)

\* return getMem(ad), ad being w.val
LoadAt(w) == getMem(w, w.val)

\* an indexed read that costs the same whether or not it crosses a page
LoadIndexedFlat(w, index, extra) == getMem(w, U16(w.val + index))

\* ad2 = ad + index; if ((ad2 & 0xff00) != (ad & 0xff00)) _cycles += extra;
\* return getMem(ad2)
LoadIndexed(w, index, extra) ==
    getMem(IF PageCross(w.val, U16(w.val + index)) THEN AddCycles(w, extra) ELSE w,
           U16(w.val + index))

\* ad += index; return getMem(ad & 0xff)
LoadZp(f, index) == getMem(f, (f.val + index) % 256)

LoadAbsX(w) == LoadIndexed(w, w.x, 1)

LoadAbsY(w) == LoadIndexed(w, w.y, 1)

LoadZpX(f) == LoadZp(f, f.x)

LoadZpY(f) == LoadZp(f, f.y)

\* ad = getMem(_pc++); ad += _x; then the pointer at ad
PointerX(f) == ZpWord(f, f.val + f.x)

\* ad = getMem(_pc++); then the pointer at ad
PointerY(f) == ZpWord(f, f.val)

\* uint8_t SIDPlayer::getAddr(uint8_t mode)
getAddr(c, mode) ==
    CASE mode = MODE_IMP -> [AddCycles(c, 2) EXCEPT !.val = 0]
      [] mode = MODE_IMM -> Fetch(AddCycles(c, 2))
      [] mode = MODE_ABS -> LoadAt(FetchWord(AddCycles(c, 4)))
      [] mode = MODE_ABSX -> LoadAbsX(FetchWord(AddCycles(c, 4)))
      [] mode = MODE_ABSY -> LoadAbsY(FetchWord(AddCycles(c, 4)))
      [] mode = MODE_ZP -> LoadAt(Fetch(AddCycles(c, 3)))
      [] mode = MODE_ZPX -> LoadZpX(Fetch(AddCycles(c, 4)))
      [] mode = MODE_ZPY -> LoadZpY(Fetch(AddCycles(c, 4)))
      [] mode = MODE_INDX -> LoadAt(PointerX(Fetch(AddCycles(c, 6))))
      [] mode = MODE_INDY -> LoadAbsY(PointerY(Fetch(AddCycles(c, 5))))
      [] mode = MODE_ACC -> [AddCycles(c, 2) EXCEPT !.val = c.a]
      [] OTHER -> [c EXCEPT !.val = 0]

\* ad |= 256 * getMem(_pc - 1), the low byte being lo.val
OperandHigh(lo) == [getMem(lo, U16(lo.pc + 65536 - 1)) EXCEPT !.val = lo.val + 256 * @]

\* ad = getMem(_pc - 2); ad |= 256 * getMem(_pc - 1): the operand word just consumed
OperandWord(c) == OperandHigh(getMem(c, U16(c.pc + 65536 - 2)))

\* a second look at the operand that takes the byte after it
OperandByteNext(c) == getMem(c, c.pc)

\* ad = getMem(_pc - 1): the operand byte just consumed
OperandByte(c) == getMem(c, U16(c.pc + 65536 - 1))

\* setMem(ad, val), ad being w.val
StoreAt(w, val) == setMem(w, w.val, val)

\* ad2 = ad + index; if ((ad2 & 0xff00) != (ad & 0xff00)) _cycles += extra;
\* setMem(ad2, val)
StoreIndexed(w, index, extra, val) ==
    setMem(IF PageCross(w.val, U16(w.val + index)) THEN AddCycles(w, extra) ELSE w,
           U16(w.val + index), val)

\* ad += index; setMem(ad & 0xff, val)
StoreZp(f, index, val) == setMem(f, (f.val + index) % 256, val)

\* setAddr, case MODE_ABSX: the page crossing takes a cycle back
RewriteAbsX(w, val) == StoreIndexed(w, w.x, -1, val)

RewriteZpX(f, val) == StoreZp(f, f.x, val)

\* void SIDPlayer::setAddr(uint8_t mode, uint8_t val)
setAddr(c, mode, val) ==
    CASE mode = MODE_ABS -> StoreAt(OperandWord(AddCycles(c, 2)), val)
      [] mode = MODE_ABSX -> RewriteAbsX(OperandWord(AddCycles(c, 3)), val)
      [] mode = MODE_ZP -> StoreAt(OperandByte(AddCycles(c, 2)), val)
      [] mode = MODE_ZPX -> RewriteZpX(OperandByte(AddCycles(c, 2)), val)
      [] mode = MODE_ACC -> [c EXCEPT !.a = val]
      [] OTHER -> c

\* putAddr, cases MODE_ABSX and MODE_INDY: no cycle for the page crossing
StoreAbsX(w, val) == StoreIndexed(w, w.x, 0, val)

StoreIndY(w, val) == StoreIndexed(w, w.y, 0, val)

\* putAddr, case MODE_ABSY
StoreAbsY(w, val) == StoreIndexed(w, w.y, 1, val)

StoreZpX(f, val) == StoreZp(f, f.x, val)

StoreZpY(f, val) == StoreZp(f, f.y, val)

\* a store that takes its address from the bytes before the program counter,
\* as the write-back of setAddr does
putAddrRewrites(c, mode, val) == setAddr(c, mode, val)

\* void SIDPlayer::putAddr(uint8_t mode, uint8_t val)
putAddr(c, mode, val) ==
    CASE mode = MODE_ABS -> StoreAt(FetchWord(AddCycles(c, 4)), val)
      [] mode = MODE_ABSX -> StoreAbsX(FetchWord(AddCycles(c, 4)), val)
      [] mode = MODE_ABSY -> StoreAbsY(FetchWord(AddCycles(c, 4)), val)
      [] mode = MODE_ZP -> StoreAt(Fetch(AddCycles(c, 3)), val)
      [] mode = MODE_ZPX -> StoreZpX(Fetch(AddCycles(c, 4)), val)
      [] mode = MODE_ZPY -> StoreZpY(Fetch(AddCycles(c, 4)), val)
      [] mode = MODE_INDX -> StoreAt(PointerX(Fetch(AddCycles(c, 6))), val)
      [] mode = MODE_INDY -> StoreIndY(PointerY(Fetch(AddCycles(c, 5))), val)
      [] mode = MODE_ACC -> [AddCycles(c, 2) EXCEPT !.a = val]
      [] OTHER -> c

\* (int8_t) of a byte
Int8(v) == IF v >= 128 THEN v - 256 ELSE v

\* a taken branch that costs one cycle wherever it leads
BranchToFlat(f, newpc, condition) ==
    IF condition THEN [f EXCEPT !.cycles = @ + 1, !.pc = newpc] ELSE f

\* branch(), after dist = (int8_t)getAddr(MODE_IMM) has left the byte in f.val:
\* newpc = _pc + dist; if (condition) { _cycles += ...; _pc = newpc; }
BranchTo(f, newpc, condition) ==
    IF condition
    THEN [f EXCEPT !.cycles = @ + (IF Bit(f.pc, 8) # Bit(newpc, 8) THEN 2 ELSE 1),
                   !.pc = newpc]
    ELSE f

BranchFrom(f, condition) == BranchTo(f, U16(f.pc + 65536 + Int8(f.val)), condition)

\* a branch that reads its displacement only when it is taken
branchSkipsUntaken(c, condition) ==
    IF condition THEN BranchFrom(getAddr(c, MODE_IMM), TRUE) ELSE AddCycles(c, 2)

\* inline void SIDPlayer::branch(bool condition)
branch(c, condition) == BranchFrom(getAddr(c, MODE_IMM), condition)

\* setMem(0x100 + _s--, v)
Push(c, v) == [setMem(c, \H100 + c.s, v) EXCEPT !.s = U8(@ + 255)]

\* the stack pointer moved up: ++_s
IncS(c) == [c EXCEPT !.s = U8(@ + 1)]

\* the byte at 0x100 + _s
Top(c) == getMem(c, \H100 + c.s)

\* a pull that leaves the stack page after $01FF
PullPastPage(c) == IncS(getMem(c, \H100 + c.s + 1))

\* getMem(0x100 + ++_s): the byte pulled in val
Pull(c) == Top(IncS(c))

\* setFlags(_p, FLAG_Z, z); setFlags(_p, FLAG_N, n)
FlagsZN(p, z, n) == setFlags(setFlags(p, FLAG_Z, z), FLAG_N, n)

\* setFlags(_p, FLAG_Z, !v); setFlags(_p, FLAG_N, v & 0x80) for a byte v
WithZN(c, v) == [c EXCEPT !.p = FlagsZN(@, v = 0, v >= 128)]

Carry(p) == IF HasFlag(p, FLAG_C) THEN 1 ELSE 0

\* setFlags(_p, FLAG_V, (!!(_p & FLAG_C)) ^ (!!(_p & FLAG_N)))
FlagV(p) == setFlags(p, FLAG_V, HasFlag(p, FLAG_C) # HasFlag(p, FLAG_N))

\* case OPadc / case OPsbc once wval is formed: C from bit 8, _a = (uint8_t)wval,
\* Z and N from _a, V from C and N
SumFlags(g, wval) ==
    [g EXCEPT !.a = U8(wval),
              !.p = FlagV(FlagsZN(setFlags(@, FLAG_C, Bit(wval, 8) = 1),
                                  U8(wval) = 0, U8(wval) > 127))]

\* case OPadc: wval = (uint16_t)_a + getAddr(addr) + ((_p & FLAG_C) ? 1 : 0)
Adc(g) == SumFlags(g, U16(g.a + g.val + Carry(g.p)))

\* a subtraction with borrow that does not complement the operand
SbcBorrow(g) == SumFlags(g, U16(g.a - g.val - 1 + Carry(g.p)))

\* case OPsbc: bval = getAddr(addr) ^ 0xff; wval = (uint16_t)_a + bval + carry
Sbc(g) == SumFlags(g, U16(g.a + Xor8(g.val, 255) + Carry(g.p)))

\* case OPand, OPeor, OPora and the loads and pulls: _a = v with Z and N
SetA(g, v) == WithZN([g EXCEPT !.a = v], v)

SetX(g, v) == WithZN([g EXCEPT !.x = v], v)

SetY(g, v) == WithZN([g EXCEPT !.y = v], v)

AndA(g) == SetA(g, And8(g.a, g.val))

EorA(g) == SetA(g, Xor8(g.a, g.val))

OraA(g) == SetA(g, Or8(g.a, g.val))

LoadA(g) == SetA(g, g.val)

LoadX(g) == SetX(g, g.val)

LoadY(g) == SetY(g, g.val)

\* Z, N and C of a shift from its 16 bit result wval and the carry out
ShiftFlags(w, wval, carry) ==
    [w EXCEPT !.p = setFlags(setFlags(setFlags(@, FLAG_Z, wval = 0),
                                      FLAG_N, Bit(wval, 7) = 1),
                             FLAG_C, carry)]

\* case OPasl: wval = getAddr(addr); wval <<= 1; setAddr(addr, (uint8_t)wval);
\* Z from wval, N from bit 7, C from bit 8
Asl(g, addr) == ShiftFlags(setAddr(g, addr, U8(g.val * 2)), g.val * 2, g.val >= 128)

\* case OPlsr: wval = bval >> 1; C from bit 0 of bval
Lsr(g, addr) == ShiftFlags(setAddr(g, addr, g.val \div 2), g.val \div 2, g.val % 2 = 1)

\* case OProl / OPror once the result bval is formed: C is set from the operand
\* before setAddr, N and Z from bval after it
Rotated(g, addr, bval, carry) ==
    WithZN(setAddr([g EXCEPT !.p = setFlags(@, FLAG_C, carry)], addr, bval), bval)

Rol(g, addr) == Rotated(g, addr, U8(g.val * 2) + Carry(g.p), g.val >= 128)

Ror(g, addr) == Rotated(g, addr, (g.val \div 2) + 128 * Carry(g.p), g.val % 2 = 1)

\* case OPdec / OPinc: bval-- or bval++, setAddr, Z and N
Stepped(g, addr, bval) == WithZN(setAddr(g, addr, bval), bval)

Dec(g, addr) == Stepped(g, addr, U8(g.val + 255))

Inc(g, addr) == Stepped(g, addr, U8(g.val + 1))

\* case OPbit
BitTest(g) ==
    [g EXCEPT !.p = setFlags(setFlags(setFlags(@, FLAG_Z, And8(g.a, g.val) = 0),
                                      FLAG_N, Bit(g.val, 7) = 1),
                             FLAG_V, Bit(g.val, 6) = 1)]

\* case OPcmp / OPcpx / OPcpy with register r: wval = (uint16_t)r - bval
Compared(g, r) ==
    [g EXCEPT !.p = setFlags(setFlags(setFlags(@, FLAG_Z, U16(r + 65536 - g.val) = 0),
                                      FLAG_N, Bit(U16(r + 65536 - g.val), 7) = 1),
                             FLAG_C, r >= g.val)]

Cmp(g) == Compared(g, g.a)

Cpx(g) == Compared(g, g.x)

Cpy(g) == Compared(g, g.y)

\* _pc = getMem(lo) | (getMem(lo + 1) << 8): the word at address ad into _pc
SetPc(hi, low) == [hi EXCEPT !.pc = low + 256 * hi.val]

VectorHigh(lo, ad) == SetPc(getMem(lo, U16(ad + 1)), lo.val)

\* an indirect jump that fetches the high byte from the page of the pointer
JumpViaSamePage(c, ad) ==
    SetPc(getMem(getMem(c, ad), (ad \div 256) * 256 + ((ad + 1) % 256)), getMem(c, ad).val)

JumpVia(c, ad) == VectorHigh(getMem(c, ad), ad)

\* a BRK that pushes the high byte of the program counter first
BrkHighFirst(c) ==
    AddCycles(JumpVia([Push(Push(Push(c, c.pc \div 256), c.pc % 256), c.p)
                          EXCEPT !.p = setFlags(@, FLAG_B, TRUE)],
                      \Hfffe), 7)

\* case OPbrk
Brk(c) ==
    AddCycles(JumpVia([Push(Push(Push(c, c.pc % 256), c.pc \div 256), c.p)
                          EXCEPT !.p = setFlags(@, FLAG_B, TRUE)],
                      \Hfffe), 7)

\* a JMP that gives up on a jump to its own address
JmpEndsSelfJump(w, addr) ==
    IF addr = MODE_ABS
    THEN [w EXCEPT !.pc = IF w.val = U16(w.pc + 65533) THEN 0 ELSE w.val]
    ELSE IF addr = MODE_IND THEN AddCycles(JumpVia(w, w.val), 2)
    ELSE w

\* case OPjmp, after wval has been fetched into w.val
Jmp(w, addr) ==
    IF addr = MODE_ABS THEN [w EXCEPT !.pc = w.val]
    ELSE IF addr = MODE_IND THEN AddCycles(JumpVia(w, w.val), 2)
    ELSE w

\* case OPjsr: the two pushes of _pc + 1
PushReturn(c, ret) == Push(Push(c, ret % 256), ret \div 256)

JumpToOperand(w) == [w EXCEPT !.pc = w.val]

Jsr(c) == JumpToOperand(FetchWord(PushReturn(c, U16(c.pc + 1))))

\* case OPrts: wval = getMem(0x100 + ++_s) << 8; wval |= getMem(0x100 + ++_s)
ReturnTo(lo, high) == [lo EXCEPT !.pc = 256 * high + lo.val]

PullLow(hi) == ReturnTo(Pull(hi), hi.val)

\* an RTS that returns to the address after the one it pulls
RtsPlusOne(c) == [AddCycles(PullLow(Pull(c)), 6) EXCEPT !.pc = U16(@ + 1)]

Rts(c) == AddCycles(PullLow(Pull(c)), 6)

\* _p = getMem(0x100 + ++_s)
PullP(g) == [g EXCEPT !.p = g.val]

Plp(c) == PullP(Pull(c))

\* case OPrti: pulls _p and falls through to OPrts
Rti(c) == Rts(Plp(c))

\* the instruction with mnemonic cmd and addressing mode addr, at the switch
\* of cpuStep
Execute(c, cmd, addr) ==
    CASE cmd = OPadc -> Adc(getAddr(c, addr))
      [] cmd = OPand -> AndA(getAddr(c, addr))
      [] cmd = OPasl -> Asl(getAddr(c, addr), addr)
      [] cmd = OPbcc -> branch(c, ~HasFlag(c.p, FLAG_C))
      [] cmd = OPbcs -> branch(c, HasFlag(c.p, FLAG_C))
      [] cmd = OPbne -> branch(c, ~HasFlag(c.p, FLAG_Z))
      [] cmd = OPbeq -> branch(c, HasFlag(c.p, FLAG_Z))
      [] cmd = OPbpl -> branch(c, ~HasFlag(c.p, FLAG_N))
      [] cmd = OPbmi -> branch(c, HasFlag(c.p, FLAG_N))
      [] cmd = OPbvc -> branch(c, ~HasFlag(c.p, FLAG_V))
      [] cmd = OPbvs -> branch(c, HasFlag(c.p, FLAG_V))
      [] cmd = OPbit -> BitTest(getAddr(c, addr))
      [] cmd = OPbrk -> Brk(c)
      [] cmd = OPclc -> [AddCycles(c, 2) EXCEPT !.p = setFlags(@, FLAG_C, FALSE)]
      [] cmd = OPcld -> [AddCycles(c, 2) EXCEPT !.p = setFlags(@, FLAG_D, FALSE)]
      [] cmd = OPcli -> [AddCycles(c, 2) EXCEPT !.p = setFlags(@, FLAG_I, FALSE)]
      [] cmd = OPclv -> [AddCycles(c, 2) EXCEPT !.p = setFlags(@, FLAG_V, FALSE)]
      [] cmd = OPcmp -> Cmp(getAddr(c, addr))
      [] cmd = OPcpx -> Cpx(getAddr(c, addr))
      [] cmd = OPcpy -> Cpy(getAddr(c, addr))
      [] cmd = OPdec -> Dec(getAddr(c, addr), addr)
      [] cmd = OPdex -> SetX(AddCycles(c, 2), U8(c.x + 255))
      [] cmd = OPdey -> SetY(AddCycles(c, 2), U8(c.y + 255))
      [] cmd = OPeor -> EorA(getAddr(c, addr))
      [] cmd = OPinc -> Inc(getAddr(c, addr), addr)
      [] cmd = OPinx -> SetX(AddCycles(c, 2), U8(c.x + 1))
      [] cmd = OPiny -> SetY(AddCycles(c, 2), U8(c.y + 1))
      [] cmd = OPjmp -> Jmp(FetchWord(AddCycles(c, 3)), addr)
      [] cmd = OPjsr -> Jsr(AddCycles(c, 6))
      [] cmd = OPlda -> LoadA(getAddr(c, addr))
      [] cmd = OPldx -> LoadX(getAddr(c, addr))
      [] cmd = OPldy -> LoadY(getAddr(c, addr))
      [] cmd = OPlsr -> Lsr(getAddr(c, addr), addr)
      [] cmd = OPnop -> AddCycles(c, 2)
      [] cmd = OPora -> OraA(getAddr(c, addr))
      [] cmd = OPpha -> AddCycles(Push(c, c.a), 3)
      [] cmd = OPphp -> AddCycles(Push(c, c.p), 3)
      [] cmd = OPpla -> AddCycles(LoadA(Pull(c)), 4)
      [] cmd = OPplp -> AddCycles(Plp(c), 4)
      [] cmd = OProl -> Rol(getAddr(c, addr), addr)
      [] cmd = OPror -> Ror(getAddr(c, addr), addr)
      [] cmd = OPrti -> Rti(c)
      [] cmd = OPrts -> Rts(c)
      [] cmd = OPsbc -> Sbc(getAddr(c, addr))
      [] cmd = OPsec -> [AddCycles(c, 2) EXCEPT !.p = setFlags(@, FLAG_C, TRUE)]
      [] cmd = OPsed -> [AddCycles(c, 2) EXCEPT !.p = setFlags(@, FLAG_D, TRUE)]
      [] cmd = OPsei -> [AddCycles(c, 2) EXCEPT !.p = setFlags(@, FLAG_I, TRUE)]
      [] cmd = OPsta -> putAddr(c, addr, c.a)
      [] cmd = OPstx -> putAddr(c, addr, c.x)
      [] cmd = OPsty -> putAddr(c, addr, c.y)
      [] cmd = OPtax -> SetX(AddCycles(c, 2), c.a)
      [] cmd = OPtay -> SetY(AddCycles(c, 2), c.a)
      [] cmd = OPtsx -> SetX(AddCycles(c, 2), c.s)
      [] cmd = OPtxa -> SetA(AddCycles(c, 2), c.x)
      [] cmd = OPtxs -> [AddCycles(c, 2) EXCEPT !.s = c.x]
      [] cmd = OPtya -> SetA(AddCycles(c, 2), c.y)
      [] OTHER -> c

\* opc = getMem(_pc++) is in f.val: cmd = opcodes[opc]; addr = modes[opc];
\* _cycles = 0; switch (cmd)
Decode(f) == Execute([f EXCEPT !.cycles = 0], opcodes[f.val + 1], modes[f.val + 1])

\* bool SIDPlayer::cpuStep(): one instruction
cpuStep(c) == Decode(Fetch(c))

\* ---- PlaybackScheduler and FileMetadataParser (SIDPlayer.cpp:643-817).
\* The handlers work on the record of all members of the player; log is the
\* call log of the handler in progress.

\* data[i] of a buffer kept as a sequence
At(data, i) == data[i + 1]

\* memcpy(&_memory[dst], &data[from], n)
MemCopy(mem, dst, data, from, n) ==
    LET img == {k \in dst .. (dst + n - 1) : At(data, from + (k - dst)) # 0}
        keep == {k \in DOMAIN mem : k < dst \/ k >= dst + n}
    IN  [k \in keep \cup img |-> IF k \in img THEN At(data, from + (k - dst)) ELSE mem[k]]

\* a copy of 33 bytes that sets no terminator
CopyTextNoNul(data, off) == [i \in 1..33 |-> At(data, off + i - 1)]

\* memcpy(_title, &data[off], 32); _title[32] = '\0'
CopyText(data, off) == [i \in 1..33 |-> IF i <= 32 THEN At(data, off + i - 1) ELSE 0]

\* a magic check that looks at the first byte only
MagicOkFirstByte(data) == At(data, 0) \in {80, 82}

MagicOk(data) ==
    /\ At(data, 0) \in {80, 82}      \* 'P' or 'R'
    /\ At(data, 1) = 83              \* 'S'
    /\ At(data, 2) = 73              \* 'I'
    /\ At(data, 3) = 68              \* 'D'

\* bool SIDPlayer::parseSIDHeader(const uint8_t* data, size_t length):
\* the player after the call, and the value returned in ok
parseSIDHeader(st, data) ==
    IF Len(data) < \H7C \/ ~MagicOk(data)
    THEN [ok |-> FALSE, st |-> st]
    ELSE
    LET dataOffset == At(data, 7)
        hdrLoad == At(data, 8) * 256 + At(data, 9)
        actualLoadAddr == At(data, dataOffset) + 256 * At(data, dataOffset + 1)
        dataSize == Len(data) - dataOffset - 2
    IN  [ok |-> TRUE,
         st |-> [st EXCEPT
            !.loadAddr = IF hdrLoad = 0 THEN actualLoadAddr ELSE hdrLoad,
            !.initAddr = At(data, 10) * 256 + At(data, 11),
            !.playAddr = At(data, 12) * 256 + At(data, 13),
            !.numSongs = At(data, \H0F),
            !.currentSong = U8(At(data, \H11) + 255),
            !.title = CopyText(data, \H16),
            !.author = CopyText(data, \H36),
            !.copyright = CopyText(data, \H56),
            !.mem = MemCopy(ZeroMem, actualLoadAddr, data, dataOffset + 2, dataSize),
            !.log = st.log \o << <<"memset">>, <<"memcpy", actualLoadAddr, dataSize>> >>]]

\* SID6581::reset(), the device's own reset (SID6581.cpp:291-304)
sidReset(st) == [st EXCEPT !.log = Append(@, <<"sid.reset">>)]

\* a CPU reset that also stops the playback
cpuResetStops(st) ==
    LET r == [st EXCEPT !.a = 0, !.x = 0, !.y = 0, !.p = 0, !.s = 255, !.playing = FALSE]
        lo == getMem(r, \Hfffc)
        hi == getMem(lo, \Hfffd)
    IN  [hi EXCEPT !.pc = lo.val + 256 * hi.val, !.log = Append(@, <<"cpuReset">>)]

\* void SIDPlayer::cpuReset()
cpuReset(st) ==
    LET r == [st EXCEPT !.a = 0, !.x = 0, !.y = 0, !.p = 0, !.s = 255]
        lo == getMem(r, \Hfffc)
        hi == getMem(lo, \Hfffd)
    IN  [hi EXCEPT !.pc = lo.val + 256 * hi.val, !.log = Append(@, <<"cpuReset">>)]

\* a cpuJsr that leaves the flags as the earlier run left them
cpuJsrKeepsFlags(st, addr, acc) ==
    LET r == [st EXCEPT !.a = acc, !.x = 0, !.y = 0, !.s = 255, !.pc = addr,
                        !.log = Append(@, <<"cpuJsr", addr, acc>>)]
    IN  Push(Push(r, 0), 0)

\* void SIDPlayer::cpuJsr(uint16_t addr, uint8_t acc), up to its loop
cpuJsr(st, addr, acc) ==
    LET r == [st EXCEPT !.a = acc, !.x = 0, !.y = 0, !.p = 0, !.s = 255, !.pc = addr,
                        !.log = Append(@, <<"cpuJsr", addr, acc>>)]
    IN  Push(Push(r, 0), 0)

\* SID6581::begin(): sets the voices' base addresses, then resets the device
\* (SID6581.cpp:243-248)
sidBegin(st) == sidReset([st EXCEPT !.log = Append(@, <<"sid.begin">>)])

\* void SIDPlayer::begin()
begin(st) == cpuReset(sidReset(sidBegin(st)))

\* a load that resets the device only after it has called the init routine
loadFromMemoryResetsLate(st, data, subSong) ==
    LET r == parseSIDHeader(st, data)
        song == IF subSong >= r.st.numSongs THEN 0 ELSE subSong
        sel == [r.st EXCEPT !.currentSong = song]
    IN  IF ~r.ok THEN [ok |-> FALSE, st |-> [st EXCEPT !.log = Append(@, <<"return", FALSE>>)]]
        ELSE [ok |-> TRUE, st |-> sidReset(cpuJsr(cpuReset(sel), sel.initAddr, song))]

\* bool SIDPlayer::loadFromMemory(data, length, subSong), up to the loop of
\* cpuJsr; ok is FALSE when it has returned false
loadFromMemory(st, data, subSong) ==
    LET r == parseSIDHeader(st, data)
        song == IF subSong >= r.st.numSongs THEN 0 ELSE subSong
        sel == [r.st EXCEPT !.currentSong = song]
    IN  IF ~r.ok THEN [ok |-> FALSE, st |-> [st EXCEPT !.log = Append(@, <<"return", FALSE>>)]]
        ELSE [ok |-> TRUE, st |-> cpuJsr(cpuReset(sidReset(sel)), sel.initAddr, song)]

\* an end of load that takes the play address from the vector whatever the header says
loadFromMemoryEndVector(st) ==
    [st EXCEPT !.playAddr = MemGet(st.mem, \H0315) * 256 + MemGet(st.mem, \H0314),
               !.fileLoaded = TRUE,
               !.log = Append(@, <<"return", TRUE>>)]

\* loadFromMemory after cpuJsr has returned (SIDPlayer.cpp:705-711)
loadFromMemoryEnd(st) ==
    LET vec == MemGet(st.mem, \H0315) * 256 + MemGet(st.mem, \H0314)
    IN  [st EXCEPT !.playAddr = IF st.playAddr = 0 THEN vec ELSE st.playAddr,
                   !.fileLoaded = TRUE,
                   !.log = Append(@, <<"return", TRUE>>)]

\* a play() without the file-loaded test
playUnguarded(st, b) == [st EXCEPT !.playing = b]

\* void SIDPlayer::play(bool play)
play(st, b) == IF ~st.fileLoaded /\ b THEN st ELSE [st EXCEPT !.playing = b]

\* void SIDPlayer::timerCallback()
timerCallback(st) == [st EXCEPT !.timerTick = TRUE]

\* an update() that runs on a tick whatever the playback state
updateRunsOnTick(st) == st.timerTick

\* the condition of void SIDPlayer::update()
updateRuns(st) == st.playing /\ st.timerTick

\* an update() that clears the tick whenever it does not run the play routine
updateClearsTick(st) ==
    IF updateRuns(st) THEN cpuJsr(st, st.playAddr, 0) ELSE [st EXCEPT !.timerTick = FALSE]

\* update() up to the loop of cpuJsr
update(st) == IF updateRuns(st) THEN cpuJsr(st, st.playAddr, 0) ELSE st

\* an end of update() that leaves the tick pending
updateEndKeepsTick(st) == st

\* update() after cpuJsr has returned
updateEnd(st) == [st EXCEPT !.timerTick = FALSE]

\* a nextSong() condition that lets the index reach the song count
nextSongRunsLoose(st) == st.currentSong < st.numSongs

\* the conditions of nextSong() and prevSong()
nextSongRuns(st) == st.currentSong < st.numSongs - 1

prevSongRuns(st) == st.currentSong > 0

\* a nextSong() that skips a song
nextSongByTwo(st) ==
    LET n == [st EXCEPT !.currentSong = U8(st.currentSong + 2)]
    IN  IF nextSongRuns(st) THEN cpuJsr(cpuReset(n), n.initAddr, n.currentSong) ELSE st

\* void SIDPlayer::nextSong(), up to the loop of cpuJsr
nextSong(st) ==
    LET n == [st EXCEPT !.currentSong = U8(st.currentSong + 1)]
    IN  IF nextSongRuns(st) THEN cpuJsr(cpuReset(n), n.initAddr, n.currentSong) ELSE st

\* a prevSong() that resets the sound device as a load does
prevSongResetsDevice(st) ==
    LET n == [st EXCEPT !.currentSong = U8(st.currentSong + 255)]
    IN  IF prevSongRuns(st) THEN cpuJsr(cpuReset(sidReset(n)), n.initAddr, n.currentSong) ELSE st

\* void SIDPlayer::prevSong(), up to the loop of cpuJsr
prevSong(st) ==
    LET n == [st EXCEPT !.currentSong = U8(st.currentSong + 255)]
    IN  IF prevSongRuns(st) THEN cpuJsr(cpuReset(n), n.initAddr, n.currentSong) ELSE st

\* ---- The buffers handed to loadFromMemory.  FileBytes lays a file out as
\* parseSIDHeader reads it: magic at 0, dataOffset at 7, the big-endian load,
\* init and play addresses at 8, 10 and 12, the song count at 0x0F, the start
\* song at 0x11, the texts at 0x16, 0x36 and 0x56, and at dataOffset the
\* little-endian load address followed by the program image.
FileBytes(magic, dataOffset, loadA, initA, playA, songs, start, text, body) ==
    LET hdr(i) ==
            CASE i = 0 -> magic
              [] i = 1 -> 83
              [] i = 2 -> 73
              [] i = 3 -> 68
              [] i = 5 -> 2
              [] i = 7 -> dataOffset
              [] i = 8 -> loadA \div 256
              [] i = 9 -> loadA % 256
              [] i = 10 -> initA \div 256
              [] i = 11 -> initA % 256
              [] i = 12 -> playA \div 256
              [] i = 13 -> playA % 256
              [] i = \H0F -> songs
              [] i = \H11 -> start
              [] i = \H16 -> text
              [] i = \H36 -> text + 1
              [] i = \H56 -> text + 2
              [] OTHER -> 0
    IN  [i \in 1 .. (dataOffset + Len(body)) |->
            IF i <= dataOffset THEN hdr(i - 1) ELSE body[i - dataOffset]]

\* Two sub-songs, start song 2, play address in the header.  Image at $1000:
\*   1000 STA $D418   1003 STA $0314   1006 RTS
\*   1007 LDA #$0F    1009 STA $D400   100C RTS
TuneA ==
    FileBytes(80, \H7C, 0, \H1000, \H1007, 2, 2, 65,
              << 0, \H10,
                 \H8D, \H18, \HD4, \H8D, \H14, \H03, \H60,
                 \HA9, \H0F, \H8D, \H00, \HD4, \H60 >>)

\* An RSID tune without a play address: init installs the vector at
\* $0314/$0315, and the play routine then moves it.  Image at $1000:
\*   1000 LDA #$0B  1002 STA $0314  1005 LDA #$10  1007 STA $0315  100A RTS
\*   100B LDA #$00  100D STA $0314  1010 STA $D404  1013 RTS
TuneB ==
    FileBytes(82, \H7C, 0, \H1000, 0, 1, 1, 70,
              << 0, \H10,
                 \HA9, \H0B, \H8D, \H14, \H03, \HA9, \H10, \H8D, \H15, \H03, \H60,
                 \HA9, \H00, \H8D, \H14, \H03, \H8D, \H04, \HD4, \H60 >>)

\* A header load address ($2000) that differs from the one in the data ($1000)
\*   1000 RTS
TuneC ==
    FileBytes(80, \H7C, \H2000, \H1000, \H1000, 2, 1, 75,
              << 0, \H10, \H60 >>)

\* A version 1 header (dataOffset 0x76) with no load address in the header and
\* a zero load address in the data.  Image at $0000:
\*   0004 RTS
TuneZ ==
    FileBytes(80, \H76, 0, 4, 4, 1, 1, 85,
              << 0, 0, 0, 0, 0, 0, \H60, 0 >>)

\* A tune whose routines do not all return: init returns for song 0 only, the
\* play routine never.  Image at $1000:
\*   1000 TAX   1001 BEQ $1006   1003 JMP $1003   1006 RTS
\*   1007 JMP $1007
TuneL ==
    FileBytes(80, \H7C, 0, \H1000, \H1007, 2, 1, 90,
              << 0, \H10,
                 \HAA, \HF0, \H03, \H4C, \H03, \H10, \H60,
                 \H4C, \H07, \H10 >>)

\* TuneC with title, author and copyright of 32 letters each, none of them
\* ended by a NUL in the file
TuneT == [i \in 1 .. Len(TuneC) |-> IF i \in 23 .. 118 THEN 65 + (i % 26) ELSE TuneC[i]]

\* An RSID tune of two songs without a play address, whose init routine sets
\* the vector at $0314/$0315 to $100A for song 0 and to $100B for song 1.
\* Image at $1000:
\*   1000 ORA #$0A  1002 STA $0314  1005 LDA #$10  1007 STA $0315  100A RTS
\*   100B RTS
TuneV ==
    FileBytes(82, \H7C, 0, \H1000, 0, 2, 1, 95,
              << 0, \H10,
                 \H09, \H0A, \H8D, \H14, \H03, \HA9, \H10, \H8D, \H15, \H03, \H60,
                 \H60 >>)

\* TuneA cut to 0x7B bytes
ShortFile == SubSeq(TuneA, 1, \H7B)

\* TuneB with 'X' for its first byte, TuneA with 'd' for its fourth
BadMagic0 == [TuneB EXCEPT ![1] = 88]

BadMagic3 == [TuneA EXCEPT ![4] = 100]

Buffers == << TuneA, TuneB, TuneC, TuneZ, ShortFile, BadMagic0, BadMagic3, TuneL, TuneT, TuneV >>

\* the subSong arguments tried
MaxSubSong == 2

SubSongs == 0 .. MaxSubSong

\* the cap of the tick counter
MaxTicks == 2

Min(u, v) == IF u < v THEN u ELSE v

\* ---- YMPlayer (src/src/YMPlayer.cpp; the class is declared in
\* SIDPlayer.h:189-221).  The player is a record of _playing, _paused, _volume
\* and the File _file: file is 0 when no file is open and otherwise the index
\* of the open file in YmSizes, pos is the position of the next read.  log is
\* the call record: the call, then the calls it made on the YM2149 device.

\* sizeof(YMFrame): uint8_t regs[14] and uint8_t padding[2]
sizeofYMFrame == 16

\* the sizes in bytes of the files on the flash: two frames and half a frame,
\* one frame, half a frame, an empty file
YmSizes == << 40, 16, 8, 0 >>

\* the byte at offset k of file f
YmByte(f, k) == (k * 5 + f * 7) % 32

\* constrain(amt, low, high) of Arduino.h
Constrain(amt, low, high) == IF amt < low THEN low ELSE IF amt > high THEN high ELSE amt

\* YMPlayer::YMPlayer(YM2149& ym)
YmNew == [playing |-> FALSE, paused |-> FALSE, volume |-> 11, file |-> 0, pos |-> 0]

\* _ym.V1.setVolume(_volume); _ym.V2.setVolume(_volume); _ym.V3.setVolume(_volume)
ymVolumes(y) ==
    [y EXCEPT !.log = @ \o << <<"V1.setVolume", y.volume>>, <<"V2.setVolume", y.volume>>,
                              <<"V3.setVolume", y.volume>> >>]

\* a stop() that leaves a pause in force
ymStopKeepsPause(y) ==
    [y EXCEPT !.playing = FALSE,
              !.log = @ \o << <<"V1.setTone", FALSE>>, <<"V2.setTone", FALSE>>,
                              <<"V3.setTone", FALSE>> >>]

\* void YMPlayer::stop()
ymStop(y) ==
    [y EXCEPT !.playing = FALSE, !.paused = FALSE,
              !.log = @ \o << <<"V1.setTone", FALSE>>, <<"V2.setTone", FALSE>>,
                              <<"V3.setTone", FALSE>> >>]

\* bool YMPlayer::loadFile(const char* filename): stop(), close the open file,
\* open filename; f = 0 is a name with no file, for which open() fails
ymLoadFile(y, f) == [ymStop(y) EXCEPT !.file = f, !.pos = 0]

\* void YMPlayer::play()
ymPlay(y) ==
    IF y.file = 0 THEN y
    ELSE ymVolumes([y EXCEPT !.pos = 0, !.playing = TRUE, !.paused = FALSE,
                             !.log = Append(@, <<"reset">>)])

\* void YMPlayer::pause()
ymPause(y) == [y EXCEPT !.paused = TRUE]

\* void YMPlayer::resume()
ymResume(y) == [y EXCEPT !.paused = FALSE]

\* void YMPlayer::setVolume(uint8_t vol)
ymSetVolume(y, vol) ==
    IF y.playing THEN ymVolumes([y EXCEPT !.volume = Constrain(vol, 0, 15)])
    ELSE [y EXCEPT !.volume = Constrain(vol, 0, 15)]

\* _file.read(buf, n): the bytes read, at most those left in the file
FileRead(size, pos, n) == IF size - pos < n THEN size - pos ELSE n

\* bool YMPlayer::readFrame(YMFrame& frame): the value returned in ok, the
\* player after the call, and in at the offset the frame was read from
ymReadFrame(y) ==
    IF y.file = 0 \/ ~y.playing THEN [ok |-> FALSE, st |-> y, at |-> 0]
    ELSE IF FileRead(YmSizes[y.file], y.pos, sizeofYMFrame) = sizeofYMFrame
    THEN [ok |-> TRUE, st |-> [y EXCEPT !.pos = @ + sizeofYMFrame], at |-> y.pos]
    ELSE [ok |-> FileRead(YmSizes[y.file], 0, sizeofYMFrame) = sizeofYMFrame,
          st |-> [y EXCEPT !.pos = FileRead(YmSizes[y.file], 0, sizeofYMFrame)],
          at |-> 0]

\* frame.regs[i] as update() writes it: the amplitude registers 8, 9 and 10
\* lowered by 15 - _volume
ymRegister(y, at, i) ==
    IF i \in {8, 9, 10}
    THEN Constrain(YmByte(y.file, at + i) - (15 - y.volume), 0, 15)
    ELSE YmByte(y.file, at + i)

\* for (int i = 0; i < 14; i++) _ym.writeReg(i, frame.regs[i])
ymWriteFrame(y, at) ==
    [y EXCEPT !.log = @ \o [i \in 1 .. 14 |-> <<"writeReg", i - 1, ymRegister(y, at, i - 1)>>]]

\* an update() that does not look at _paused
ymUpdateWhilePaused(y) ==
    IF ~y.playing THEN y
    ELSE IF ymReadFrame(y).ok THEN ymWriteFrame(ymReadFrame(y).st, ymReadFrame(y).at)
    ELSE ymReadFrame(y).st

\* void YMPlayer::update()
ymUpdate(y) ==
    IF ~y.playing \/ y.paused THEN y
    ELSE IF ymReadFrame(y).ok THEN ymWriteFrame(ymReadFrame(y).st, ymReadFrame(y).at)
    ELSE ymReadFrame(y).st

\* ---- the state machine
progVars == << _playing, _fileLoaded, _timerTick, _loadAddr, _initAddr, _playAddr,
               _numSongs, _currentSong, _title, _author, _copyright, _memory,
               _a, _x, _y, _s, _p, _pc, _cycles >>

vars == << _playing, _fileLoaded, _timerTick, _loadAddr, _initAddr, _playAddr,
           _numSongs, _currentSong, _title, _author, _copyright, _memory,
           _a, _x, _y, _s, _p, _pc, _cycles,
           mainPc, callLog, ticksSince, ymPlayer >>

\* the player as the record the handlers work on
State ==
    [playing |-> _playing, fileLoaded |-> _fileLoaded, timerTick |-> _timerTick,
     loadAddr |-> _loadAddr, initAddr |-> _initAddr, playAddr |-> _playAddr,
     numSongs |-> _numSongs, currentSong |-> _currentSong,
     title |-> _title, author |-> _author, copyright |-> _copyright,
     mem |-> _memory,
     a |-> _a, x |-> _x, y |-> _y, s |-> _s, p |-> _p, pc |-> _pc, cycles |-> _cycles,
     log |-> callLog, val |-> 0]

\* a handler called from the main loop starts a new call log, headed by the
\* call and its arguments
Called(call) == [State EXCEPT !.log = << call >>]

\* the handler the call log belongs to
LogCall == IF callLog = << >> THEN "none" ELSE callLog[1][1]

\* the song index at which prevSong() was called, when prevSong() is the
\* handler that ran last, and -1 when another handler ran last
PrevFrom == IF LogCall = "prevSong" THEN callLog[1][2] ELSE -1

Becomes(n) ==
    /\ _playing' = n.playing
    /\ _fileLoaded' = n.fileLoaded
    /\ _timerTick' = n.timerTick
    /\ _loadAddr' = n.loadAddr
    /\ _initAddr' = n.initAddr
    /\ _playAddr' = n.playAddr
    /\ _numSongs' = n.numSongs
    /\ _currentSong' = n.currentSong
    /\ _title' = n.title
    /\ _author' = n.author
    /\ _copyright' = n.copyright
    /\ _memory' = n.mem
    /\ _a' = n.a
    /\ _x' = n.x
    /\ _y' = n.y
    /\ _s' = n.s
    /\ _p' = n.p
    /\ _pc' = n.pc
    /\ _cycles' = n.cycles
    /\ callLog' = n.log
    /\ ymPlayer' = ymPlayer

NoText == [i \in 1..33 |-> 0]

\* SIDPlayer::SIDPlayer(SID6581* sid)
Init ==
    /\ _playing = FALSE
    /\ _fileLoaded = FALSE
    /\ _timerTick = FALSE
    /\ _loadAddr = 0
    /\ _initAddr = 0
    /\ _playAddr = 0
    /\ _numSongs = 1
    /\ _currentSong = 0
    /\ _title = NoText
    /\ _author = NoText
    /\ _copyright = NoText
    /\ _memory = ZeroMem
    /\ _a = 0
    /\ _x = 0
    /\ _y = 0
    /\ _s = 255
    /\ _p = 0
    /\ _pc = 0
    /\ _cycles = 0
    /\ mainPc = "idle"
    /\ callLog = << >>
    /\ ticksSince = 0
    /\ ymPlayer = YmNew

\* the timer: timerCallback() may run between any two steps of the main loop.
\* ticksSince counts the ticks delivered since the play routine last returned.
TimerCallback ==
    /\ Becomes(timerCallback(State))
    /\ ticksSince' = Min(ticksSince + 1, MaxTicks)
    /\ UNCHANGED mainPc

Begin ==
    /\ mainPc = "idle"
    /\ Becomes(begin(Called(<<"begin">>)))
    /\ UNCHANGED << mainPc, ticksSince >>

\* loadFromMemory(Buffers[i], length, subSong) called from the main loop
LoadCall(i, subSong) ==
    /\ mainPc = "idle"
    /\ LET r == loadFromMemory(Called(<<"loadFromMemory", i, subSong>>), Buffers[i], subSong)
       IN  /\ Becomes(r.st)
           /\ mainPc' = IF r.ok THEN "load" ELSE "idle"
    /\ UNCHANGED ticksSince

LoadFromMemory == \E i \in DOMAIN Buffers, subSong \in SubSongs : LoadCall(i, subSong)

LoadReturn ==
    /\ mainPc = "load"
    /\ _pc = 0
    /\ Becomes(loadFromMemoryEnd(State))
    /\ mainPc' = "idle"
    /\ UNCHANGED ticksSince

\* play(b) called from the main loop
PlayCall(b) ==
    /\ mainPc = "idle"
    /\ Becomes(play(Called(<<"play", b>>), b))
    /\ UNCHANGED << mainPc, ticksSince >>

Play == \E b \in BOOLEAN : PlayCall(b)

\* update() called from the main loop; the call is logged with the number of
\* ticks it finds delivered
Update ==
    /\ mainPc = "idle"
    /\ Becomes(update(Called(<<"update", ticksSince>>)))
    /\ mainPc' = IF updateRuns(State) THEN "update" ELSE "idle"
    /\ UNCHANGED ticksSince

UpdateReturn ==
    /\ mainPc = "update"
    /\ _pc = 0
    /\ Becomes(updateEnd(State))
    /\ mainPc' = "idle"
    /\ ticksSince' = 0

\* nextSong() called from the main loop; the call is logged with PrevFrom
NextSong ==
    /\ mainPc = "idle"
    /\ Becomes(nextSong(Called(<<"nextSong", PrevFrom>>)))
    /\ mainPc' = IF nextSongRuns(State) THEN "song" ELSE "idle"
    /\ UNCHANGED ticksSince

\* prevSong() called from the main loop; the call is logged with the song
\* index it finds
PrevSong ==
    /\ mainPc = "idle"
    /\ Becomes(prevSong(Called(<<"prevSong", _currentSong>>)))
    /\ mainPc' = IF prevSongRuns(State) THEN "song" ELSE "idle"
    /\ UNCHANGED ticksSince

\* a return from a song switch that takes the play address from the vector
SongReturnDerives ==
    /\ mainPc = "song"
    /\ _pc = 0
    /\ mainPc' = "idle"
    /\ _playAddr' = MemGet(_memory, 789) * 256 + MemGet(_memory, 788)
    /\ UNCHANGED << _playing, _fileLoaded, _timerTick, _loadAddr, _initAddr,
                    _numSongs, _currentSong, _title, _author, _copyright, _memory,
                    _a, _x, _y, _s, _p, _pc, _cycles, callLog, ticksSince, ymPlayer >>

\* nextSong() or prevSong() returns when the init routine has returned
SongReturn ==
    /\ mainPc = "song"
    /\ _pc = 0
    /\ mainPc' = "idle"
    /\ UNCHANGED << progVars, callLog, ticksSince, ymPlayer >>

\* the loop of cpuJsr: while (_pc) cpuStep()
Run ==
    /\ mainPc # "idle"
    /\ _pc # 0
    /\ Becomes(cpuStep(State))
    /\ UNCHANGED << mainPc, ticksSince >>

Next ==
    \/ TimerCallback
    \/ Begin
    \/ LoadFromMemory
    \/ LoadReturn
    \/ Play
    \/ Update
    \/ UpdateReturn
    \/ NextSong
    \/ PrevSong
    \/ SongReturn
    \/ Run

Spec == Init /\ [][Next]_vars


\* ---- cpuJsr on its own: cpuJsr(entry, seed) called on a fixed image with
\* any of the entries below, as often as wished.  Image:
\*   0000 RTS   0001 RTS           01FE RTS   01FF RTS   1000 RTS
\*   2000 JMP $0000                3000 NOP   3001 RTS
\*   4000 LDA #$55   4002 STA $DD0D   4005 LDA $DD0D   4008 RTS
\*   5000 JSR $5010   5003 RTS     5010 PHA   5011 PLA   5012 RTS
\*   DD0C LDA #$60 (the operand, at $DD0D, is also an RTS)   DD0E RTS
\*   FFF0 BNE $0000                FFFE LDA $60EA (its last byte is at $0000)
\*   FFFF NOP
JsrImage ==
    MemCopy(MemCopy(MemCopy(MemCopy(MemCopy(MemCopy(MemCopy(MemCopy(MemCopy(MemCopy(MemCopy(ZeroMem,
        20480, <<32, 16, 80, 96>>, 0, 4),
        20496, <<72, 104, 96>>, 0, 3),
        0, <<96, 96>>, 0, 2),
        510, <<96, 96>>, 0, 2),
        4096, <<96>>, 0, 1),
        8192, <<76, 0, 0>>, 0, 3),
        12288, <<234, 96>>, 0, 2),
        16384, <<169, 85, 141, 13, 221, 173, 13, 221, 96>>, 0, 9),
        56588, <<169, 96, 96>>, 0, 3),
        65520, <<208, 14>>, 0, 2),
        65534, <<173, 234>>, 0, 2)

Entries == {0, 510, 511, 4096, 8192, 12288, 16384, 20480, 56588, 56589, 65520, 65534, 65535}

Seeds == {0, 1, 255}

\* the most instructions of one run the model follows
MaxSteps == 5

\* the instructions a run has executed so far
Steps(log) == Cardinality({k \in DOMAIN log : log[k][1] = "step"})

InitJsr ==
    /\ _playing = FALSE
    /\ _fileLoaded = FALSE
    /\ _timerTick = FALSE
    /\ _loadAddr = 0
    /\ _initAddr = 0
    /\ _playAddr = 0
    /\ _numSongs = 1
    /\ _currentSong = 0
    /\ _title = NoText
    /\ _author = NoText
    /\ _copyright = NoText
    /\ _memory = JsrImage
    /\ _a \in {0, 170}
    /\ _x \in {0, 7}
    /\ _y = 9
    /\ _s = 255
    /\ _p \in {0, 195}
    /\ _pc = 0
    /\ _cycles = 0
    /\ mainPc = "idle"
    /\ callLog = << >>
    /\ ticksSince = 0
    /\ ymPlayer = YmNew

\* cpuJsr(entry, seed) up to its loop; the call is logged with the byte the
\* image holds at the entry
JsrCall(entry, seed) ==
    /\ mainPc = "idle"
    /\ Becomes(cpuJsr(Called(<<"callAndRun", entry, seed, MemGet(_memory, entry)>>), entry, seed))
    /\ mainPc' = "jsr"
    /\ UNCHANGED ticksSince

\* a loop that steps also when _pc is 0
JsrStepPastZero ==
    /\ mainPc = "jsr"
    /\ Steps(callLog) < MaxSteps
    /\ Becomes([cpuStep(State) EXCEPT !.log = Append(@, <<"step", _pc>>)])
    /\ UNCHANGED << mainPc, ticksSince >>

\* one turn of while (_pc) cpuStep(), logged with the address of the instruction
JsrStep ==
    /\ mainPc = "jsr"
    /\ _pc # 0
    /\ Steps(callLog) < MaxSteps
    /\ Becomes([cpuStep(State) EXCEPT !.log = Append(@, <<"step", _pc>>)])
    /\ UNCHANGED << mainPc, ticksSince >>

\* the loop has ended and cpuJsr returns
JsrReturn ==
    /\ mainPc = "jsr"
    /\ _pc = 0
    /\ mainPc' = "idle"
    /\ UNCHANGED << progVars, callLog, ticksSince, ymPlayer >>

JsrCalls == \E entry \in Entries, seed \in Seeds : JsrCall(entry, seed)

NextJsr ==
    \/ JsrCalls
    \/ JsrStep
    \/ JsrReturn

SpecJsr == InitJsr /\ [][NextJsr]_vars


\* ---- getMem and setMem on their own: any sequence of setMem(a, v) and
\* getMem(a) calls with the addresses and values below, starting from an
\* empty address space or from JsrImage (which holds $60 at $DD0D).  The
\* addresses lie below, at both ends of and above the window $D400-$D7FF.
MemAddrs == {54271, 54272, 54335, 55295, 55296, 56589}

MemVals == {0, 165, 255}

InitMem ==
    /\ _playing = FALSE
    /\ _fileLoaded = FALSE
    /\ _timerTick = FALSE
    /\ _loadAddr = 0
    /\ _initAddr = 0
    /\ _playAddr = 0
    /\ _numSongs = 1
    /\ _currentSong = 0
    /\ _title = NoText
    /\ _author = NoText
    /\ _copyright = NoText
    /\ _memory \in {ZeroMem, JsrImage}
    /\ _a = 0
    /\ _x = 0
    /\ _y = 0
    /\ _s = 255
    /\ _p = 0
    /\ _pc = 0
    /\ _cycles = 0
    /\ mainPc = "idle"
    /\ callLog = << >>
    /\ ticksSince = 0
    /\ ymPlayer = YmNew

\* setMem(a, v)
MemWrite(a, v) ==
    /\ Becomes(setMem(Called(<<"setMem", a, v>>), a, v))
    /\ UNCHANGED << mainPc, ticksSince >>

\* getMem(a), logged with the value it returns
MemReadResult(r) == [r EXCEPT !.log = Append(@, <<"return", r.val>>)]

MemRead(a) ==
    /\ Becomes(MemReadResult(getMem(Called(<<"getMem", a>>), a)))
    /\ UNCHANGED << mainPc, ticksSince >>

MemWrites == \E a \in MemAddrs, v \in MemVals : MemWrite(a, v)

MemReads == \E a \in MemAddrs : MemRead(a)

NextMem ==
    \/ MemWrites
    \/ MemReads

SpecMem == InitMem /\ [][NextMem]_vars


\* ---- cpuStep on its own: one instruction, with any opcode byte, at one of
\* three addresses ($0280; $FFFF, where the operand bytes lie at $0000 and
\* $0001; $DD0C, where the first operand byte lies at $DD0D), with the operand
\* bytes and the registers drawn from the sets below.  The address space
\* holds pointers in page zero and a non-zero byte in every cell an
\* operand can address, unlike the bytes of the cells before and after it:
\*   000F 20 F1 D4 03      pointers $F120, $D4F1, $03D4
\*   007E 30 FF D7 0D DD   pointers $FF30, $D7FF, $0DD7, $DD0D
\*   00FE 40 FE FF 01      pointers $FE40, $FFFE, $01FF (wrapping to $0000)
\* and at the addresses $0310, $D47F, $0380 and $D7FF, at those the pointers
\* hold, and at the ones before and after each of them, the byte Fill(k).
Fill(k) == ((k * 37 + (k \div 256) * 11) % 255) + 1

StepData ==
    MemCopy(MemCopy(MemCopy(MemCopy(
        [k \in {U16(base + d) :
                    base \in {784, 54399, 896, 55295, 61728, 54513, 980, 65328, 3543,
                              56589, 65088, 65534, 511, 256},
                    d \in {0, 1, 255}} |-> Fill(k)],
        15, <<32, 241, 212, 3>>, 0, 4),
        126, <<48, 255, 215, 13, 221>>, 0, 5),
        254, <<64, 254>>, 0, 2),
        0, <<255, 1>>, 0, 2)

\* the instruction op b1 b2 at address at
StepImage(op, at, b1, b2) ==
    MemPut(MemPut(MemPut(StepData, at, op), U16(at + 1), b1), U16(at + 2), b2)

\* the operand bytes: for a branch its displacement, for any other opcode
\* the addresses $0310, $D47F, $0380 and $D7FF
StepOperands(op) ==
    IF modes[op + 1] = MODE_REL
    THEN {<<d, 0>> : d \in {0, 1, 16, 125, 126, 127, 128, 129, 130, 240, 253, 254, 255}}
    ELSE {<<16, 3>>, <<127, 212>>, <<128, 3>>, <<255, 215>>, <<255, 255>>}

\* the registers and the cycle counter before the step
RegFiles == <<
    [a |-> 165, x |-> 0,   y |-> 1,   s |-> 253, p |-> 1,   cycles |-> 0],
    [a |-> 90,  x |-> 1,   y |-> 255, s |-> 253, p |-> 2,   cycles |-> 7],
    [a |-> 128, x |-> 255, y |-> 0,   s |-> 0,   p |-> 64,  cycles |-> 7],
    [a |-> 0,   x |-> 1,   y |-> 1,   s |-> 255, p |-> 128, cycles |-> 3],
    [a |-> 255, x |-> 255, y |-> 255, s |-> 1,   p |-> 255, cycles |-> 4],
    [a |-> 1,   x |-> 0,   y |-> 0,   s |-> 254, p |-> 0,   cycles |-> 2] >>

\* the state cpuStep() is called in; the call is logged with the address, the
\* opcode, the operand bytes and the register file
StepCall(op, at, b, i) ==
    /\ _playing = FALSE
    /\ _fileLoaded = FALSE
    /\ _timerTick = FALSE
    /\ _loadAddr = 0
    /\ _initAddr = 0
    /\ _playAddr = 0
    /\ _numSongs = 1
    /\ _currentSong = 0
    /\ _title = NoText
    /\ _author = NoText
    /\ _copyright = NoText
    /\ _memory = StepImage(op, at, b[1], b[2])
    /\ _a = RegFiles[i].a
    /\ _x = RegFiles[i].x
    /\ _y = RegFiles[i].y
    /\ _s = RegFiles[i].s
    /\ _p = RegFiles[i].p
    /\ _pc = at
    /\ _cycles = RegFiles[i].cycles
    /\ mainPc = "step"
    /\ callLog = << <<"cpuStep", at, op, b[1], b[2], i>> >>
    /\ ticksSince = 0
    /\ ymPlayer = YmNew

InitStep ==
    \E op \in 0 .. 255, at \in {640, 65535, 56588}, i \in DOMAIN RegFiles :
        \E b \in StepOperands(op) : StepCall(op, at, b, i)

\* cpuStep()
CpuStep ==
    /\ mainPc = "step"
    /\ Becomes(cpuStep(State))
    /\ mainPc' = "stepped"
    /\ UNCHANGED ticksSince

NextStep == CpuStep

SpecStep == InitStep /\ [][NextStep]_vars

\* ---- parseSIDHeader on its own, on buffers whose header names an offset,
\* a load address and a length that need not fit each other.  The buffer is a
\* v2 header of $7C bytes, the two bytes of the load address and n payload
\* bytes; byte 7, the data offset, is then set to o.
ParseBuffer(magic, o, load, n) ==
    [FileBytes(magic, \H7C, 0, \H1000, \H1003, 1, 1, 65,
               << load % 256, load \div 256 >> \o SubSeq(<< 96, 96, 96 >>, 1, n))
        EXCEPT ![8] = o]

ParseBuffers ==
    {ParseBuffer(magic, o, load, n) :
        magic \in {80, 0}, o \in {118, 124, 125, 127, 255},
        load \in {4096, 65533, 65534, 65535}, n \in 0 .. 3}

\* the indexing data[dataOffset], data[dataOffset + 1] and the memcpy of
\* parseSIDHeader stay inside data and inside _memory[65536]: only then does
\* the language define what the call does
CopyInside(data) ==
    /\ At(data, 7) + 2 <= Len(data)
    /\ At(data, At(data, 7)) + 256 * At(data, At(data, 7) + 1)
            + (Len(data) - At(data, 7) - 2) <= 65536

\* data[i], a byte junk of whatever follows the buffer when i is past its end
Beyond(data, i, junk) == IF i < Len(data) THEN At(data, i) ELSE junk

\* parseSIDHeader when the copy leaves the buffer or the array and the machine
\* lets it run: the bytes past the buffer read as junk, size_t dataSize has
\* wrapped when length < dataOffset + 2, and the cells from 65536 on are what
\* follows _memory in the object (the copy is followed one cell past the end)
parseOverrun(st, data, junk) ==
    LET dataOffset == At(data, 7)
        actualLoadAddr == Beyond(data, dataOffset, junk)
                              + 256 * Beyond(data, dataOffset + 1, junk)
        dataSize == Len(data) - dataOffset - 2
        copied == IF dataSize < 0 THEN 65537 - actualLoadAddr
                  ELSE Min(dataSize, 65537 - actualLoadAddr)
        inside == IF dataSize < 0 THEN 0 ELSE Min(dataSize, copied)
        img == {k \in actualLoadAddr .. (actualLoadAddr + inside - 1) :
                    At(data, dataOffset + 2 + (k - actualLoadAddr)) # 0}
               \cup IF junk = 0 THEN {}
                    ELSE (actualLoadAddr + inside) .. (actualLoadAddr + copied - 1)
    IN  [parseSIDHeader(st, [data EXCEPT ![8] = \H7C]).st EXCEPT
            !.loadAddr = IF At(data, 8) * 256 + At(data, 9) = 0 THEN actualLoadAddr ELSE @,
            !.mem = [k \in img |-> Beyond(data, dataOffset + 2 + (k - actualLoadAddr), junk)],
            !.log = st.log \o << <<"memset">>, <<"memcpy", actualLoadAddr, copied>> >>]

\* parseSIDHeader(data, length) where its behaviour is defined: the buffer is
\* refused, or every access is in range
ParseDefined ==
    /\ mainPc = "idle"
    /\ \E data \in ParseBuffers :
          /\ ~MagicOk(data) \/ CopyInside(data)
          /\ Becomes(parseSIDHeader(Called(<<"parseSIDHeader", data>>), data).st)
    /\ mainPc' = "parsed"
    /\ UNCHANGED ticksSince

\* parseSIDHeader(data, length) where it indexes past the buffer or copies past
\* the array: the access traps, or the copy runs over what follows
ParseUndefined ==
    /\ mainPc = "idle"
    /\ \E data \in ParseBuffers :
          /\ MagicOk(data) /\ ~CopyInside(data)
          /\ \/ /\ Becomes(Called(<<"parseSIDHeader", data>>))
                /\ mainPc' = "fault"
             \/ /\ \E junk \in {0, 255} :
                      Becomes(parseOverrun(Called(<<"parseSIDHeader", data>>), data, junk))
                /\ mainPc' = "overrun"
    /\ UNCHANGED ticksSince

NextParse ==
    \/ ParseDefined
    \/ ParseUndefined

SpecParse == Init /\ [][NextParse]_vars

\* ---- YMPlayer on its own: any sequence of loadFile, play, stop, pause,
\* resume, setVolume and update calls, with the files of YmSizes on the flash.
YmCalled(call) ==
    [playing |-> ymPlayer.playing, paused |-> ymPlayer.paused, volume |-> ymPlayer.volume,
     file |-> ymPlayer.file, pos |-> ymPlayer.pos, log |-> << call >>]

YmBecomes(n) ==
    /\ ymPlayer' = [playing |-> n.playing, paused |-> n.paused, volume |-> n.volume,
                    file |-> n.file, pos |-> n.pos]
    /\ callLog' = n.log
    /\ UNCHANGED << progVars, mainPc, ticksSince >>

YmLoadFile == \E f \in 0 .. Len(YmSizes) : YmBecomes(ymLoadFile(YmCalled(<<"loadFile", f>>), f))

YmPlay == YmBecomes(ymPlay(YmCalled(<<"play">>)))

YmStop == YmBecomes(ymStop(YmCalled(<<"stop">>)))

YmPause == YmBecomes(ymPause(YmCalled(<<"pause">>)))

YmResume == YmBecomes(ymResume(YmCalled(<<"resume">>)))

YmSetVolume == \E vol \in {0, 9, 15, 255} : YmBecomes(ymSetVolume(YmCalled(<<"setVolume", vol>>), vol))

YmUpdate == YmBecomes(ymUpdate(YmCalled(<<"update">>)))

NextYm ==
    \/ YmLoadFile
    \/ YmPlay
    \/ YmStop
    \/ YmPause
    \/ YmResume
    \/ YmSetVolume
    \/ YmUpdate

SpecYm == Init /\ [][NextYm]_vars

\* ---- what the call log tells
\* the subroutine invocations (cpuJsr calls) in a call log
Invocations(log) == Cardinality({k \in DOMAIN log : log[k][1] = "cpuJsr"})

\* a step that is a call of loadFromMemory, and the buffer it is handed
LoadStep ==
    /\ mainPc = "idle"
    /\ callLog' # << >>
    /\ callLog'[1][1] = "loadFromMemory"
    /\ LoadCall(callLog'[1][2], callLog'[1][3])

LoadStepData == Buffers[callLog'[1][2]]

\* a step that is the return of a successful loadFromMemory, and its arguments
LoadReturnStep == mainPc = "load" /\ mainPc' = "idle"

LoadedData == Buffers[callLog[1][2]]

LoadedSubSong == callLog[1][3]

\* what the file format says of a buffer
HeaderWord(data, off) == At(data, off) * 256 + At(data, off + 1)

EmbeddedLoad(data) == At(data, At(data, 7)) + 256 * At(data, At(data, 7) + 1)

ResolvedLoad(data) ==
    IF HeaderWord(data, 8) # 0 THEN HeaderWord(data, 8) ELSE EmbeddedLoad(data)

BadBuffer(data) ==
    \/ Len(data) < 124
    \/ SubSeq(data, 1, 4) \notin {<<80, 83, 73, 68>>, <<82, 83, 73, 68>>}

\* the address space with the payload of data at address L and zero elsewhere
ImageAt(L, data) ==
    LET from == At(data, 7) + 2
        n == Len(data) - from
        set == {k \in L .. (L + n - 1) : At(data, from + (k - L)) # 0}
    IN  [k \in set |-> At(data, from + (k - L))]

Vector(mem) == MemGet(mem, 789) * 256 + MemGet(mem, 788)

\* ---- C1
\* C1: ticks are coalesced, never queued.  An update() called while Playing
\* with a file loaded after two or more ticks were delivered invokes the play
\* routine exactly once; when that update() returns no tick is pending; and an
\* update() called with no tick delivered since the play routine last returned
\* invokes it zero times.
C1_TicksCoalesced ==
    [][ /\ (Update /\ _playing /\ _fileLoaded /\ ticksSince >= 2)
              => (Invocations(callLog') = 1 /\ mainPc' = "update")
        /\ UpdateReturn => (~_timerTick' /\ ticksSince' = 0)
        /\ (Update /\ ticksSince = 0)
              => (Invocations(callLog') = 0 /\ mainPc' = "idle") ]_vars

\* update() found two or more ticks, ran the play routine once and returned
C1_Witness ==
    /\ mainPc = "idle"
    /\ LogCall = "update"
    /\ callLog[1][2] >= 2
    /\ Invocations(callLog) = 1
    /\ _playing
    /\ ~_timerTick
    /\ ticksSince = 0

C3_ClearsOnEveryCall ==
    [][ /\ (Update /\ mainPc' = "idle") => ~_timerTick'
        /\ UpdateReturn => ~_timerTick' ]_vars

\* C3, amended: update() clears the pending tick only when it runs the play
\* routine, that is when Playing with a tick pending.  An update() called
\* while Stopped, or with no tick pending, leaves the flag as it is, so a tick
\* delivered while Stopped stays pending through update() and play(true), and
\* the first update() in the Playing state invokes the play routine.
C3_ClearsOnlyWhenPlayed ==
    [][ /\ (Update /\ ~(_playing /\ _timerTick))
              => (UNCHANGED _timerTick /\ Invocations(callLog') = 0 /\ mainPc' = "idle")
        /\ (Update /\ _playing /\ _timerTick)
              => (Invocations(callLog') = 1 /\ mainPc' = "update")
        /\ (_timerTick /\ ~_timerTick') => UpdateReturn
        /\ PlayCall(TRUE) => UNCHANGED _timerTick ]_vars

\* update() was called while Stopped with one tick delivered, and has
\* returned with that tick still pending
C3_Witness ==
    /\ mainPc = "idle"
    /\ callLog = << <<"update", 1>> >>
    /\ ticksSince = 1
    /\ _timerTick
    /\ ~_playing
    /\ _fileLoaded

\* ---- C4
\* C4: in every reachable state Playing implies that a load has succeeded;
\* play(true) before any successful load leaves the player Stopped.
C4_PlayingImpliesLoaded == _playing => _fileLoaded

\* play(true) was called with no file loaded and the player is still Stopped
C4_Witness ==
    /\ callLog = << <<"play", TRUE>> >>
    /\ ~_fileLoaded
    /\ ~_playing

\* ---- C5
\* C5: loadFromMemory returns false for a buffer shorter than 0x7C bytes or
\* without the magic ('P' or 'R'),'S','I','D', and such a call changes no
\* member of the player (address space, addresses, song count and index,
\* texts, CPU registers, file-loaded, playing and tick flags) and neither
\* resets nor writes the sound device.
C5_FailedLoadKeepsState ==
    [][ (LoadStep /\ BadBuffer(LoadStepData))
            => /\ Len(callLog') = 2
               /\ callLog'[2] = <<"return", FALSE>>
               /\ mainPc' = "idle"
               /\ UNCHANGED progVars ]_vars

\* a load has failed while a loaded file is playing
C5_Witness ==
    /\ mainPc = "idle"
    /\ LogCall = "loadFromMemory"
    /\ Len(callLog) = 2
    /\ callLog[2] = <<"return", FALSE>>
    /\ _playing
    /\ _fileLoaded

\* ---- C6
\* C6: a successful loadFromMemory clears the address space and places the
\* image, then resets the sound device, then resets the CPU, then invokes the
\* init routine once with the selected sub-song in the accumulator; all the
\* device writes follow; and the file-loaded flag turns true only at the
\* return of the load, when the init routine has returned.
C6_LoadOrder ==
    /\ []((LogCall = "loadFromMemory" /\ Len(callLog) > 2) =>
            /\ Len(callLog) >= 6
            /\ callLog[2] = <<"memset">>
            /\ callLog[3][1] = "memcpy"
            /\ callLog[4] = <<"sid.reset">>
            /\ callLog[5] = <<"cpuReset">>
            /\ callLog[6] = <<"cpuJsr", _initAddr, _currentSong>>
            /\ \A k \in 7 .. Len(callLog) :
                  \/ callLog[k][1] = "w"
                  \/ k = Len(callLog) /\ callLog[k][1] = "return" /\ mainPc = "idle")
    /\ [][ (~_fileLoaded /\ _fileLoaded')
              => /\ mainPc = "load"
                 /\ _pc = 0
                 /\ callLog' = Append(callLog, <<"return", TRUE>>) ]_vars

\* a load has returned true after its init routine wrote to the device
C6_Witness ==
    /\ mainPc = "idle"
    /\ LogCall = "loadFromMemory"
    /\ Len(callLog) >= 8
    /\ callLog[7][1] = "w"
    /\ callLog[Len(callLog)] = <<"return", TRUE>>
    /\ _fileLoaded

\* ---- C7
\* C7: after a successful parse and before the init routine runs, the address
\* space holds the payload at the resolved load address (the header's if
\* non-zero, else the word at dataOffset) and zero everywhere else.
C7_ImageAtResolvedLoad ==
    [][ (LoadStep /\ mainPc' = "load")
            => _memory' = ImageAt(ResolvedLoad(LoadStepData), LoadStepData) ]_vars

\* ---- C8
\* C8: the load address recorded for a buffer that parseSIDHeader accepts
\* (0x7C bytes or more, valid magic) is never zero.
C8_LoadAddrNonZero == (mainPc = "load" \/ _fileLoaded) => _loadAddr # 0

\* ---- C9
\* C9: a successful loadFromMemory called with subSong = 0 leaves
\* getCurrentSong() at the header's start song minus one, and has invoked the
\* init routine with that index in the accumulator.
C9_SubSongZeroIsDefault ==
    [][ (LoadReturnStep /\ LoadedSubSong = 0)
            => /\ _currentSong' = At(LoadedData, 17) - 1
               /\ callLog[6] = <<"cpuJsr", _initAddr, At(LoadedData, 17) - 1>> ]_vars

\* ---- C10
\* C10: when a load returns, the play address is the header's if that is
\* non-zero, whatever the vector at $0314/$0315 holds, and else the vector as
\* the init routine left it; nothing but a load changes it afterwards, and
\* every update() that runs the play routine calls that address with 0 in the
\* accumulator.
C10_PlayAddress ==
    [][ /\ LoadReturnStep
              => _playAddr' = IF HeaderWord(LoadedData, 12) # 0
                              THEN HeaderWord(LoadedData, 12)
                              ELSE Vector(_memory)
        /\ (_playAddr' # _playAddr) => (LoadReturnStep \/ LoadStep)
        /\ (Update /\ mainPc' = "update")
              => callLog'[2] = <<"cpuJsr", _playAddr, 0>> ]_vars

\* the play routine of a file without a header play address has run at the
\* address the vector held when the load returned, and has since moved the
\* vector
C10_Witness ==
    /\ mainPc = "idle"
    /\ LogCall = "update"
    /\ Invocations(callLog) = 1
    /\ _title = CopyText(TuneB, 22)
    /\ _playAddr = 4107
    /\ callLog[2] = <<"cpuJsr", 4107, 0>>
    /\ Vector(_memory) # _playAddr

\* ---- C11
\* a cpuJsr call logged with an RTS in the image at its entry
RtsAtEntry == LogCall = "callAndRun" /\ callLog[1][4] = 96

\* the run has executed one instruction and that was all
OneStepRun ==
    /\ Steps(callLog) <= 1
    /\ Steps(callLog) = 1 => (_pc = 0 /\ _s = 255)
    /\ mainPc = "idle" => Steps(callLog) = 1

\* C11 as the specification states it: cpuJsr(entry, seed) on an image with
\* an RTS at the entry executes exactly one instruction and returns with
\* PC = 0 and the stack pointer at 0xFF, for every entry and seed.
C11_RtsReturnsAtOnce == RtsAtEntry => OneStepRun

\* C11, amended: that holds for every entry but 0, $01FE, $01FF and $DD0D.
\* With entry 0 cpuJsr executes no instruction and returns with the stack
\* pointer at 0xFD; at $01FE and $01FF the two zero bytes of the return
\* address replace the RTS before it is fetched, and at $DD0D the fetch reads
\* 0, so a BRK is executed instead.
C11_RtsReturnsAtOnceElsewhere ==
    RtsAtEntry =>
        CASE callLog[1][2] = 0 -> Steps(callLog) = 0 /\ _pc = 0 /\ _s = 253
          [] callLog[1][2] \in {510, 511, 56589} ->
                Steps(callLog) >= 1 => (callLog[3] = <<"step", callLog[1][2]>> /\ _s < 253)
          [] OTHER -> OneStepRun

\* cpuJsr($1000, 255) has returned after the one RTS
C11_Witness ==
    /\ RtsAtEntry
    /\ callLog[1][2] = 4096
    /\ callLog[1][3] = 255
    /\ mainPc = "idle"
    /\ Steps(callLog) = 1
    /\ _a = 255
    /\ _pc = 0
    /\ _s = 255

\* ---- C13
\* C13: cpuJsr executes whole instructions while PC is not 0 and returns at
\* the first instruction boundary with PC = 0: no instruction is fetched at
\* address 0, PC is 0 when cpuJsr has returned, a fetch of operand bytes
\* across address 0 does not end the run, and cpuJsr(0, seed) executes
\* nothing and leaves only the two zero bytes on the stack.
C13_ReturnsAtZero ==
    /\ [](LogCall = "callAndRun" =>
            /\ \A k \in DOMAIN callLog : callLog[k][1] = "step" => callLog[k][2] # 0
            /\ mainPc = "idle" => _pc = 0
            /\ callLog[1][2] = 0
                  => /\ Steps(callLog) = 0
                     /\ Len(callLog) = 2
                     /\ _s = 253
                     /\ MemGet(_memory, 511) = 0 /\ MemGet(_memory, 510) = 0
                     /\ _a = callLog[1][3]
            /\ callLog[1] = <<"callAndRun", 65534, callLog[1][3], 173>>
                  => /\ Steps(callLog) >= 1 => callLog[3] = <<"step", 65534>>
                     /\ Steps(callLog) >= 2 => callLog[4] = <<"step", 1>>)
    /\ [][ /\ JsrReturn => (_pc = 0 /\ UNCHANGED progVars)
           /\ JsrStep => _pc # 0
           /\ (JsrStep /\ callLog[1][2] \in {8192, 65520, 65535} /\ Steps(callLog) = 0)
                 => _pc' = 0 ]_vars

\* the run entered at $FFFE has fetched an operand byte at address 0, gone
\* on at $0001 and returned from there
C13_Witness ==
    /\ mainPc = "idle"
    /\ LogCall = "callAndRun"
    /\ callLog[1][2] = 65534
    /\ Steps(callLog) = 2
    /\ callLog[4] = <<"step", 1>>
    /\ _pc = 0

\* ---- C15
\* C15: getMem($DD0D) returns 0 and leaves 0 stored at $DD0D, whatever the
\* image or an earlier write put there, also when the interpreter fetches an
\* opcode (a BRK is executed) or an operand byte at $DD0D.
C15_ReadOfDD0D ==
    /\ [](/\ getMem(State, 56589).val = 0
          /\ MemGet(getMem(State, 56589).mem, 56589) = 0)
    /\ [][ /\ (JsrStep /\ _pc = 56589)
                 => /\ MemGet(_memory', 56589) = 0
                    /\ _s' = U8(_s + 253)
                    /\ HasFlag(_p', FLAG_B)
                    /\ _cycles' = 7
           /\ (JsrStep /\ _pc = 56588 /\ MemGet(_memory, 56588) = 169)
                 => /\ MemGet(_memory', 56589) = 0
                    /\ _a' = 0
                    /\ _pc' = 56590
           /\ (JsrStep /\ _pc = 16389)
                 => /\ MemGet(_memory', 56589) = 0
                    /\ _a' = 0 ]_vars

\* the routine at $4000 has stored $55 at $DD0D, read it back as 0 and
\* returned
C15_Witness ==
    /\ mainPc = "idle"
    /\ LogCall = "callAndRun"
    /\ callLog[1][2] = 16384
    /\ Steps(callLog) = 4
    /\ _a = 0
    /\ MemGet(_memory, 56589) = 0

\* ---- C12
\* a step in which a handler enters the loop of cpuJsr, and the cpuJsr call it logs
EntersRun == mainPc = "idle" /\ mainPc' # "idle"

LastCall == callLog'[Len(callLog')]

SelfJump ==
    /\ mainPc # "idle"
    /\ _pc # 0
    /\ MemGet(_memory, _pc) = 76
    /\ MemGet(_memory, U16(_pc + 1)) + 256 * MemGet(_memory, U16(_pc + 2)) = _pc

\* C14: nothing limits the loop of cpuJsr.  Once the program counter is at a
\* JMP to its own address, every later step leaves it there and leaves the
\* handler that called cpuJsr (loadFromMemory, nextSong, prevSong or update)
\* inside its call.
C14_NoIterationLimit == [][ SelfJump => (SelfJump' /\ mainPc' = mainPc) ]_vars

\* update() is inside a play routine that jumps to itself and has executed
\* the jump, while ticks keep arriving
C14_Witness ==
    /\ SelfJump
    /\ mainPc = "update"
    /\ _cycles = 3
    /\ ticksSince = MaxTicks

\* ---- C16
\* a step that is a setMem call, its address and its value
MemWriteStep ==
    /\ callLog' # << >>
    /\ callLog'[1][1] = "setMem"
    /\ MemWrite(callLog'[1][2], callLog'[1][3])

WrittenAddr == callLog'[1][2]

WrittenVal == callLog'[1][3]

\* C16: setMem(a, v) with a in $D400-$D7FF writes v once to the device
\* register a & 31 and stores v at a; with any other a it stores v at a and
\* writes nothing to the device; two calls reach the device in the order in
\* which they are made.  No other byte of the address space changes.
C16_WindowWrites ==
    /\ [][ MemWriteStep
              => /\ callLog' = IF WrittenAddr \in 54272 .. 55295
                               THEN << callLog'[1], <<"w", WrittenAddr % 32, WrittenVal>> >>
                               ELSE << callLog'[1] >>
                 /\ MemGet(_memory', WrittenAddr) = WrittenVal
                 /\ \A b \in (DOMAIN _memory \cup DOMAIN _memory') \ {WrittenAddr} :
                        MemGet(_memory', b) = MemGet(_memory, b) ]_vars
    /\ [](\A a \in {54272, 55295}, b \in {54335, 55296}, v \in MemVals :
            setMem(setMem(State, a, v), b, 165 - v \div 2).log =
                callLog \o << <<"w", a % 32, v>> >>
                        \o (IF b = 54335 THEN << <<"w", 31, 165 - v \div 2>> >> ELSE << >>))

\* setMem($D43F, $A5) has written $A5 to device register 31 and stored it
C16_Witness ==
    /\ callLog = << <<"setMem", 54335, 165>>, <<"w", 31, 165>> >>
    /\ MemGet(_memory, 54335) = 165

\* ---- C17
\* C17: getMem(a) right after setMem(a, v) returns v for every address a but
\* $DD0D, inside the window $D400-$D7FF as outside it, also when another
\* address is written in between.
C17_WriteReadRoundTrip ==
    /\ [][ (callLog # << >> /\ callLog[1][1] = "setMem" /\ callLog[1][2] # 56589
              /\ MemRead(callLog[1][2]))
              => callLog' = << <<"getMem", callLog[1][2]>>, <<"return", callLog[1][3]>> >> ]_vars
    /\ [](\A a \in MemAddrs \ {56589}, v \in MemVals :
            /\ getMem(setMem(State, a, v), a).val = v
            /\ \A b \in MemAddrs \ {a} :
                  getMem(setMem(setMem(State, a, v), b, 255 - v), a).val = v)

\* getMem($D400) has returned the $FF stored there by a setMem
C17_Witness ==
    /\ callLog = << <<"getMem", 54272>>, <<"return", 255>> >>
    /\ MemGet(_memory, 54272) = 255

\* ---- C18
\* C18: the current song index is below the song count whenever the count is
\* at least 1; a load called with an index at or above the count selects song
\* 0; nextSong() at the last index and prevSong() at index 0 change no member
\* of the player and call nothing.
C18_SongIndexInRange ==
    /\ [](_numSongs >= 1 => _currentSong < _numSongs)
    /\ [][ /\ LoadReturnStep
                 => _currentSong' = IF LoadedSubSong >= _numSongs THEN 0 ELSE LoadedSubSong
           /\ (NextSong /\ _currentSong >= _numSongs - 1)
                 => (UNCHANGED progVars /\ Len(callLog') = 1 /\ mainPc' = "idle")
           /\ (PrevSong /\ _currentSong = 0)
                 => (UNCHANGED progVars /\ Len(callLog') = 1 /\ mainPc' = "idle") ]_vars

\* nextSong() was called at the last index of a file with several songs and
\* did nothing
C18_Witness ==
    /\ mainPc = "idle"
    /\ LogCall = "nextSong"
    /\ Len(callLog) = 1
    /\ _fileLoaded
    /\ _numSongs >= 2
    /\ _currentSong = _numSongs - 1

\* ---- C19
\* C19 as the specification states it: nextSong() called right after
\* prevSong() leaves the song index where it was before prevSong(), and when
\* it calls the init routine it passes that index.
C19_PrevNextRestores ==
    [][ (NextSong /\ PrevFrom # -1)
            => /\ _currentSong' = PrevFrom
               /\ mainPc' = "song" => LastCall = <<"cpuJsr", _initAddr, PrevFrom>> ]_vars

\* C19, amended: prevSong() then nextSong() restores the song index when the
\* starting index is above 0 or the file has no second song; from index 0 of
\* a file with two or more songs prevSong() does nothing and nextSong() then
\* moves to index 1 and calls the init routine with 1.
C19_PrevNextRestoresAboveZero ==
    [][ (NextSong /\ PrevFrom # -1)
            => IF PrevFrom > 0 \/ _numSongs <= 1
               THEN /\ _currentSong' = PrevFrom
                    /\ mainPc' = "song" => LastCall = <<"cpuJsr", _initAddr, PrevFrom>>
               ELSE /\ _currentSong' = 1
                    /\ mainPc' = "song"
                    /\ LastCall = <<"cpuJsr", _initAddr, 1>> ]_vars

\* nextSong() ran right after a prevSong() called at an index above 0, and
\* the index is back
C19_Witness ==
    /\ mainPc = "idle"
    /\ LogCall = "nextSong"
    /\ callLog[1][2] > 0
    /\ _currentSong = callLog[1][2]
    /\ Invocations(callLog) = 1

\* ---- C20
\* C20: a nextSong() or prevSong() that changes the index resets the CPU and
\* calls the init routine once with the new index in the accumulator; at the
\* first instruction only $01FF and $01FE of the address space have changed
\* (to 0); and the call resets nothing of the sound device: all it does to
\* the device are the register writes of the init routine.
C20_SongSwitchFrame ==
    /\ [][ ((NextSong \/ PrevSong) /\ _currentSong' # _currentSong)
              => /\ mainPc' = "song"
                 /\ callLog'[2] = <<"cpuReset">>
                 /\ callLog'[3] = <<"cpuJsr", _initAddr, _currentSong'>>
                 /\ Len(callLog') = 3
                 /\ _a' = _currentSong'
                 /\ _x' = 0 /\ _y' = 0 /\ _p' = 0 /\ _s' = 253
                 /\ _pc' = _initAddr
                 /\ _memory' = MemPut(MemPut(_memory, 511, 0), 510, 0)
                 /\ UNCHANGED << _playing, _fileLoaded, _timerTick, _loadAddr, _initAddr,
                                 _playAddr, _numSongs, _title, _author, _copyright >> ]_vars
    /\ []((LogCall \in {"nextSong", "prevSong"} /\ Len(callLog) > 1)
             => /\ Len(callLog) >= 3
                /\ Invocations(callLog) = 1
                /\ \A k \in 4 .. Len(callLog) : callLog[k][1] = "w")

\* prevSong() has switched the song: its init routine has written to the
\* device and returned, and the image and the vector byte set by the load's
\* init run are still in the address space
C20_Witness ==
    /\ mainPc = "idle"
    /\ LogCall = "prevSong"
    /\ Len(callLog) > 3
    /\ callLog[4][1] = "w"
    /\ _currentSong = callLog[1][2] - 1
    /\ MemGet(_memory, 4096) = 141

\* ---- C21
\* the 32 bytes of a text field of the file, followed by a NUL
TextField(data, off) == [i \in 1..33 |-> IF i <= 32 THEN data[off + i] ELSE 0]

\* C21: when loadFromMemory has parsed an accepted buffer, the init and play
\* addresses are the big-endian words at offsets 10 and 12 of the header, the
\* load address is the big-endian word at offset 8, or the little-endian word
\* at the data offset when that is zero, the song count is the byte at offset
\* 0x0F, and title, author and copyright are the 32 bytes at offsets 0x16,
\* 0x36 and 0x56, each followed by a NUL.
C21_HeaderFields ==
    [][ (LoadStep /\ ~BadBuffer(LoadStepData))
            => /\ _loadAddr' = IF HeaderWord(LoadStepData, 8) = 0
                               THEN EmbeddedLoad(LoadStepData)
                               ELSE HeaderWord(LoadStepData, 8)
               /\ _initAddr' = HeaderWord(LoadStepData, 10)
               /\ _playAddr' = HeaderWord(LoadStepData, 12)
               /\ _numSongs' = LoadStepData[16]
               /\ _title' = TextField(LoadStepData, 22)
               /\ _author' = TextField(LoadStepData, 54)
               /\ _copyright' = TextField(LoadStepData, 86) ]_vars

\* a file whose texts fill their 32 bytes has been parsed: the title ends with
\* the file's byte at 0x35 and a NUL, and the load address is the header's
C21_Witness ==
    /\ mainPc = "load"
    /\ LogCall = "loadFromMemory"
    /\ Buffers[callLog[1][2]] = TuneT
    /\ _title[32] = TuneT[54]
    /\ _title[32] # 0
    /\ _title[33] = 0
    /\ _author[1] # 0
    /\ _loadAddr = 8192

\* ---- C22
\* what the parser records of a file
Metadata == << _loadAddr, _initAddr, _playAddr, _numSongs, _title, _author, _copyright >>

\* C22: load, init and play address, song count and the three texts change
\* only in a successful loadFromMemory (when it parses the file and when it
\* returns); play(), timerCallback(), update(), nextSong() and prevSong(),
\* the routines they run included, leave them as they are, so a song switch
\* changes the song index only and the play address is not taken from the
\* vector again.
C22_MetadataFrame ==
    [][ /\ (Metadata' # Metadata)
              => ((LoadStep /\ ~BadBuffer(LoadStepData)) \/ LoadReturnStep)
        /\ ( \/ PlayCall(TRUE) \/ PlayCall(FALSE) \/ TimerCallback
             \/ Update \/ UpdateReturn \/ NextSong \/ PrevSong \/ SongReturn
             \/ (Run /\ mainPc \in {"update", "song"}) )
              => UNCHANGED Metadata ]_vars

\* nextSong() has switched a tune without a play address to song 1 and has
\* returned: its init routine has moved the vector to $100B, and the play
\* address is still the $100A taken from the vector when the file was loaded
C22_Witness ==
    /\ mainPc = "idle"
    /\ LogCall = "nextSong"
    /\ _title = CopyText(TuneV, 22)
    /\ _currentSong = 1
    /\ Vector(_memory) = 4107
    /\ _playAddr = 4106

\* ---- C23
\* C23: the playback state changes only in play().  play(false) leaves the
\* player Stopped, play(true) leaves it Playing exactly when a file is
\* loaded; loadFromMemory (accepted or refused), nextSong(), prevSong(),
\* timerCallback() and update(), the routines they run included, leave the
\* state as it is, so a reload or a song switch asked for while Playing leaves
\* the player Playing.
C23_PlayingFrame ==
    [][ /\ (_playing' # _playing) => (PlayCall(TRUE) \/ PlayCall(FALSE))
        /\ PlayCall(FALSE) => ~_playing'
        /\ PlayCall(TRUE) => (_playing' <=> _fileLoaded)
        /\ ( \/ LoadStep \/ LoadReturnStep \/ NextSong \/ PrevSong \/ SongReturn
             \/ TimerCallback \/ Update \/ UpdateReturn \/ Run )
              => UNCHANGED _playing ]_vars

\* a file was loaded again while the player was Playing: the load has
\* returned true and the player is still Playing
C23_Witness ==
    /\ mainPc = "idle"
    /\ LogCall = "loadFromMemory"
    /\ callLog[Len(callLog)] = <<"return", TRUE>>
    /\ _playing

\* ---- C24
\* a step that executes the RTS matching the JSR at the entry of the run: the
\* entry holds a JSR, the instruction at the program counter is an RTS, and
\* the stack pointer is where the JSR left it (two below the $FD at entry)
MatchingRts ==
    /\ JsrStep
    /\ callLog[1][4] = 32
    /\ MemGet(_memory, _pc) = 96
    /\ _s = 251

\* C24 as the specification states it: after a JSR at address p to a
\* subroutine that leaves the stack balanced, the matching RTS resumes at the
\* instruction after the JSR, p + 3, with the stack pointer as it was before
\* the JSR.
C24_RtsResumesAfterJsr ==
    [][ MatchingRts => (_pc' = U16(callLog[1][2] + 3) /\ _s' = 253) ]_vars

\* ---- what a single step is called with
StepAt == callLog[1][2]

StepOp == callLog[1][3]

StepCmd == opcodes[StepOp + 1]

StepMode == modes[StepOp + 1]

\* the byte a read of address ad observes
Seen(ad) == IF ad = 56589 THEN 0 ELSE MemGet(_memory, ad)

\* the operand bytes of an addressing mode
OperandBytes(mode) ==
    CASE mode \in {MODE_IMP, MODE_ACC} -> 0
      [] mode \in {MODE_IMM, MODE_ZP, MODE_ZPX, MODE_ZPY, MODE_REL, MODE_INDX, MODE_INDY} -> 1
      [] mode \in {MODE_ABS, MODE_ABSX, MODE_ABSY} -> 2
      [] OTHER -> -1

IsBranch == StepCmd \in {OPbcc, OPbcs, OPbne, OPbeq, OPbpl, OPbmi, OPbvc, OPbvs}

\* the condition of the branch: the flag its mnemonic names, set or clear
BranchCond ==
    CASE StepCmd = OPbcc -> _p % 2 = 0
      [] StepCmd = OPbcs -> _p % 2 = 1
      [] StepCmd = OPbne -> (_p \div 2) % 2 = 0
      [] StepCmd = OPbeq -> (_p \div 2) % 2 = 1
      [] StepCmd = OPbvc -> (_p \div 64) % 2 = 0
      [] StepCmd = OPbvs -> (_p \div 64) % 2 = 1
      [] StepCmd = OPbpl -> _p < 128
      [] StepCmd = OPbmi -> _p >= 128
      [] OTHER -> FALSE

\* ---- C25
\* a legal opcode other than JMP, JSR, RTS, RTI, BRK and a taken branch
Sequential ==
    /\ StepCmd \notin {OPxxx, OPjmp, OPjsr, OPrts, OPrti, OPbrk}
    /\ ~(IsBranch /\ BranchCond)

\* C25: one step of a legal opcode other than JMP, JSR, RTS, RTI, BRK and a
\* taken branch leaves the program counter at the opcode address + 1 + n
\* modulo 65536, n being the operand bytes of the opcode's addressing mode: 0
\* for implied and accumulator, 1 for immediate, zero page, zero page indexed,
\* relative and the two indirect modes, 2 for absolute and absolute indexed;
\* for instructions that read, that read and write back, and that store.
C25_PcAdvance ==
    [][ (CpuStep /\ Sequential) => _pc' = U16(_pc + 1 + OperandBytes(StepMode)) ]_vars

\* INC $D7FF,X at $FFFF, its operand bytes at $0000 and $0001, has left the
\* program counter at $0002 and the incremented byte at $D800
C25_Witness ==
    /\ mainPc = "stepped"
    /\ StepOp = 254
    /\ StepAt = 65535
    /\ callLog[1][4] = 255
    /\ _x = 1
    /\ _pc = 2
    /\ MemGet(_memory, 55296) = U8(Fill(55296) + 1)

\* ---- C26
\* a displacement byte as a signed number
Signed(d) == IF d < 128 THEN d ELSE d - 256

\* the address after the branch instruction, and the one the branch leads to
AfterBranch == U16(_pc + 2)

BranchTarget == U16(_pc + 2 + 65536 + Signed(Seen(U16(_pc + 1))))

\* C26 as the specification states it: a branch leaves the program counter
\* at the opcode address + 2 when its condition is false and at the opcode
\* address + 2 + the signed displacement, modulo 65536, when it is true, the
\* condition being the flag the mnemonic names; and it changes no flag, no
\* register and no byte of the address space.
C26_BranchFrame ==
    [][ (CpuStep /\ IsBranch)
            => /\ _pc' = IF BranchCond THEN BranchTarget ELSE AfterBranch
               /\ UNCHANGED << _a, _x, _y, _s, _p, _memory >> ]_vars

\* C26, amended: as above, but for the byte at $DD0D: a branch whose
\* displacement byte lies at $DD0D reads it as 0, so that it leaves the
\* program counter at the opcode address + 2 whatever its condition, and
\* leaves 0 at $DD0D; it changes no other byte, no flag and no register.
C26_BranchFrameButDD0D ==
    [][ (CpuStep /\ IsBranch)
            => /\ _pc' = IF BranchCond THEN BranchTarget ELSE AfterBranch
               /\ U16(_pc + 1) = 56589 => _pc' = AfterBranch
               /\ _memory' = IF U16(_pc + 1) = 56589 THEN MemPut(_memory, 56589, 0)
                                                      ELSE _memory
               /\ UNCHANGED << _a, _x, _y, _s, _p >> ]_vars

\* BEQ at $DD0C with the zero flag set and the byte $FE at $DD0D: the branch
\* was taken with displacement 0, and $DD0D holds 0
C26_Witness ==
    /\ mainPc = "stepped"
    /\ StepOp = 240
    /\ StepAt = 56588
    /\ callLog[1][4] = 254
    /\ _p = 2
    /\ _pc = 56590
    /\ _cycles = 3
    /\ MemGet(_memory, 56589) = 0

\* ---- C27
\* branch(true) once the displacement d is fetched and the program counter is
\* at the address after the branch instruction, and the addresses tried
TakenFrom(after, d) == BranchFrom([State EXCEPT !.pc = after, !.val = d, !.cycles = 2], TRUE)

BranchAfters == {0, 1, 127, 128, 129, 255, 256, 642, 65407, 65408, 65409, 65535}

\* C27: the cycle counter after a branch is 2 when the branch is not taken, 3
\* when it is taken to an address in the 256 byte page of the address after
\* the branch instruction, and 4 when it is taken to an address whose high
\* byte differs from that address's; for negative and positive displacements
\* and also where the addresses wrap between $FFFF and $0000.
C27_BranchCycles ==
    /\ [][ (CpuStep /\ IsBranch)
              => _cycles' = IF ~BranchCond THEN 2
                            ELSE IF BranchTarget \div 256 = AfterBranch \div 256 THEN 3
                            ELSE 4 ]_vars
    /\ []((mainPc = "step" /\ StepOp = 16 /\ callLog[1][4] = 0 /\ _p = 0)
            => \A d \in 0 .. 255, after \in BranchAfters :
                  TakenFrom(after, d).cycles =
                      IF TakenFrom(after, d).pc \div 256 = after \div 256 THEN 3 ELSE 4)

\* BMI at $FFFF with displacement -2 was taken from $0001 back to $FFFF, in
\* four cycles
C27_Witness ==
    /\ mainPc = "stepped"
    /\ StepOp = 48
    /\ StepAt = 65535
    /\ callLog[1][4] = 254
    /\ _p = 128
    /\ _pc = 65535
    /\ _cycles = 4

\* ---- C28
\* the instructions that read their operand and write nothing
IsRead ==
    StepCmd \in {OPlda, OPldx, OPldy, OPadc, OPsbc, OPand, OPora, OPeor,
                 OPcmp, OPcpx, OPcpy, OPbit}

\* the operand bytes as the instruction reads them
Operand1 == Seen(U16(_pc + 1))

Operand2 == Seen(U16(_pc + 2))

\* the pointer held in page zero at zp
PointerAt(zp) == Seen(zp % 256) + 256 * Seen((zp + 1) % 256)

\* the unindexed base of the indexed modes and the index added to it
IndexBase ==
    CASE StepMode \in {MODE_ABSX, MODE_ABSY} -> Operand1 + 256 * Operand2
      [] StepMode = MODE_INDY -> PointerAt(Operand1)
      [] OTHER -> 0

IndexReg ==
    CASE StepMode = MODE_ABSX -> _x
      [] StepMode \in {MODE_ABSY, MODE_INDY} -> _y
      [] OTHER -> 0

\* the fixed cost of a mode
BaseCost(mode) ==
    CASE mode = MODE_IMM -> 2
      [] mode = MODE_ZP -> 3
      [] mode \in {MODE_ZPX, MODE_ZPY, MODE_ABS, MODE_ABSX, MODE_ABSY} -> 4
      [] mode = MODE_INDX -> 6
      [] mode = MODE_INDY -> 5
      [] OTHER -> -1

\* C28: every instruction starts its cycle count at 0, whatever the last
\* instruction left in the counter; after an instruction that reads, the
\* counter holds the fixed cost of the mode (immediate 2, zero page 3, zero
\* page indexed 4, absolute 4, absolute indexed 4, indexed indirect 6,
\* indirect indexed 5), plus 1 exactly when the mode is absolute,X,
\* absolute,Y or indirect indexed and the high byte of the indexed address
\* differs from the high byte of its unindexed base.
C28_ReadCycles ==
    [][ CpuStep
            => /\ _cycles' = cpuStep([State EXCEPT !.cycles = 0]).cycles
               /\ IsRead
                    => _cycles' = BaseCost(StepMode)
                           + (IF U16(IndexBase + IndexReg) \div 256 # IndexBase \div 256
                              THEN 1 ELSE 0) ]_vars

\* LDA ($7F),Y with the pointer $D7FF and Y = 1 has read $D800 in six cycles,
\* the counter having held 3 before
C28_Witness ==
    /\ mainPc = "stepped"
    /\ StepOp = 177
    /\ StepAt = 640
    /\ callLog[1][4] = 127
    /\ RegFiles[callLog[1][6]].cycles = 3
    /\ _y = 1
    /\ _a = Fill(55296)
    /\ _cycles = 6

\* ---- C29
\* the effective address of the instruction, from its operand bytes and the
\* index registers
EffAddr ==
    CASE StepMode = MODE_ZP -> Operand1
      [] StepMode = MODE_ZPX -> (Operand1 + _x) % 256
      [] StepMode = MODE_ZPY -> (Operand1 + _y) % 256
      [] StepMode = MODE_ABS -> Operand1 + 256 * Operand2
      [] StepMode = MODE_ABSX -> U16(Operand1 + 256 * Operand2 + _x)
      [] StepMode = MODE_ABSY -> U16(Operand1 + 256 * Operand2 + _y)
      [] StepMode = MODE_INDX -> PointerAt(Operand1 + _x)
      [] StepMode = MODE_INDY -> U16(PointerAt(Operand1) + _y)
      [] OTHER -> -1

\* the address space once the instruction has read the cells in reads: a
\* read of $DD0D leaves 0 there
AfterReads(reads) == IF 56589 \in reads THEN MemPut(_memory, 56589, 0) ELSE _memory

\* the cells that hold the operand bytes
OperandCells == {U16(_pc + k) : k \in 1 .. OperandBytes(StepMode)}

\* the call log after one write of value to address ad
LogAfterWrite(ad, value) ==
    IF ad \in 54272 .. 55295 THEN Append(callLog, <<"w", ad % 32, value>>) ELSE callLog

IsRmw == StepCmd \in {OPasl, OPlsr, OProl, OPror, OPinc, OPdec}

\* the byte a read-modify-write instruction makes of the byte v
Modified(v) ==
    CASE StepCmd = OPasl -> (2 * v) % 256
      [] StepCmd = OPlsr -> v \div 2
      [] StepCmd = OProl -> ((2 * v) % 256) + (_p % 2)
      [] StepCmd = OPror -> (v \div 2) + 128 * (_p % 2)
      [] StepCmd = OPinc -> (v + 1) % 256
      [] StepCmd = OPdec -> (v + 255) % 256

\* C29: ASL, LSR, ROL, ROR, INC and DEC with an operand in memory write the
\* modified byte to the effective address the operand was read from, and to
\* no other cell, with one write (one device write when the address lies in
\* $D400-$D7FF), and consume no instruction byte for the write; in
\* accumulator mode the result goes to A and nothing is written.
C29_WriteBack ==
    [][ (CpuStep /\ IsRmw)
            => IF StepMode = MODE_ACC
               THEN /\ _a' = Modified(_a)
                    /\ _memory' = _memory
                    /\ callLog' = callLog
                    /\ _pc' = U16(_pc + 1)
               ELSE /\ EffAddr # -1
                    /\ _memory' = MemPut(AfterReads(OperandCells \cup {EffAddr}),
                                         EffAddr, Modified(Seen(EffAddr)))
                    /\ callLog' = LogAfterWrite(EffAddr, Modified(Seen(EffAddr)))
                    /\ _pc' = U16(_pc + 1 + OperandBytes(StepMode)) ]_vars

\* INC $D47F has written the incremented byte to $D47F and, once, to device
\* register 31
C29_Witness ==
    /\ mainPc = "stepped"
    /\ StepOp = 238
    /\ StepAt = 640
    /\ callLog[1][4] = 127
    /\ callLog[1][5] = 212
    /\ Len(callLog) = 2
    /\ callLog[2] = <<"w", 31, U8(Fill(54399) + 1)>>
    /\ MemGet(_memory, 54399) = U8(Fill(54399) + 1)
    /\ _pc = 643

\* ---- C30
IsStore == StepCmd \in {OPsta, OPstx, OPsty}

\* the register a store writes
StoredReg ==
    CASE StepCmd = OPsta -> _a
      [] StepCmd = OPstx -> _x
      [] StepCmd = OPsty -> _y

\* the load of the same register with the same addressing mode (its opcode is
\* the store's + $20), executed in place of the store
LoadImage == MemPut(_memory, _pc, StepOp + 32)

LoadInPlace == cpuStep([State EXCEPT !.mem = LoadImage])

LoadedReg ==
    CASE StepCmd = OPsta -> LoadInPlace.a
      [] StepCmd = OPstx -> LoadInPlace.x
      [] StepCmd = OPsty -> LoadInPlace.y

\* C30: STA, STX and STY write the register, unchanged, to the effective
\* address that the load with the same addressing mode, operand bytes and
\* index registers reads, and to no other cell, with one write (one device
\* write when the address lies in $D400-$D7FF); they consume the operand
\* bytes the load consumes; and they leave A, X, Y, the stack pointer and the
\* flags as they are.
C30_StoreAddress ==
    [][ (CpuStep /\ IsStore)
            => /\ EffAddr # -1
               /\ modes[StepOp + 33] = StepMode
               /\ opcodes[StepOp + 33] = StepCmd - OPsta + OPlda
               /\ LoadedReg = IF EffAddr = 56589 THEN 0 ELSE MemGet(LoadImage, EffAddr)
               /\ _memory' = MemPut(AfterReads(OperandCells), EffAddr, StoredReg)
               /\ callLog' = LogAfterWrite(EffAddr, StoredReg)
               /\ _pc' = LoadInPlace.pc
               /\ _pc' = U16(_pc + 1 + OperandBytes(StepMode))
               /\ UNCHANGED << _a, _x, _y, _s, _p >> ]_vars

\* STA ($7F),Y with the pointer $D7FF and Y = 0 has written A = $80 to $D7FF
\* and, once, to device register 31
C30_Witness ==
    /\ mainPc = "stepped"
    /\ StepOp = 145
    /\ StepAt = 640
    /\ callLog[1][4] = 127
    /\ _y = 0
    /\ _a = 128
    /\ Len(callLog) = 2
    /\ callLog[2] = <<"w", 31, 128>>
    /\ MemGet(_memory, 55295) = 128
    /\ _pc = 642
\* ---- C31
Unassigned == StepCmd = OPxxx

\* C31 as the specification states it: for every opcode byte the decode table
\* does not assign, one step is a 2-cycle no-op: the program counter advances
\* by exactly 1 and no operand byte is consumed, A, X, Y, the stack pointer,
\* the flags and memory are unchanged, and the cycle counter after the step
\* is 2.
C31_UnassignedTwoCycles ==
    [][ (CpuStep /\ Unassigned) =>
          /\ _pc' = U16(_pc + 1)
          /\ <<_a, _x, _y, _s, _p, _memory>>' = <<_a, _x, _y, _s, _p, _memory>>
          /\ _cycles' = 2 ]_vars

\* what the step of an unassigned opcode does do: everything the claim says
\* but the cycle counter, which the step leaves at 0
C31_UnassignedNoCycles ==
    [][ (CpuStep /\ Unassigned) =>
          /\ _pc' = U16(_pc + 1)
          /\ <<_a, _x, _y, _s, _p, _memory>>' = <<_a, _x, _y, _s, _p, _memory>>
          /\ _cycles' = 0 ]_vars

\* ---- C32
\* the byte the instruction reads as its operand
OperandValue == IF StepMode = MODE_IMM THEN Operand1 ELSE Seen(EffAddr)

\* the 9-bit sum of ADC and SBC
Sum9 == _a + (IF StepCmd = OPadc THEN OperandValue ELSE 255 - OperandValue) + (_p % 2)

\* the machine before the step with the D flag the other way
DecimalToggled == [State EXCEPT !.p = Xor8(@, FLAG_D)]

\* C32: ADC leaves A = (A + M + C) mod 256 and SBC leaves
\* A = (A + (M xor $FF) + C) mod 256, the same whether the D flag is set or
\* clear; C becomes the carry out of the 9-bit sum, Z is set iff the new A is
\* zero, N is bit 7 of the new A and V is the exclusive or of the new C and
\* the new N; D, I and B are unchanged.
C32_BinarySum ==
    [][ (CpuStep /\ StepCmd \in {OPadc, OPsbc})
            => /\ _a' = Sum9 % 256
               /\ Bit(_p', 0) = Sum9 \div 256
               /\ (Bit(_p', 1) = 1) = (_a' = 0)
               /\ Bit(_p', 7) = Bit(_a', 7)
               /\ (Bit(_p', 6) = 1) = (Bit(_p', 0) # Bit(_p', 7))
               /\ \A k \in {2, 3, 4} : Bit(_p', k) = Bit(_p, k)
               /\ cpuStep(DecimalToggled).a = _a'
               /\ cpuStep(DecimalToggled).p = Xor8(_p', FLAG_D) ]_vars

\* SBC #$10 with A = $FF, the carry and the D flag set has left A = $EF with
\* C and N set and V and Z clear, D still set
C32_Witness ==
    /\ mainPc = "stepped"
    /\ StepOp = 233
    /\ callLog[1][4] = 16
    /\ callLog[1][6] = 5
    /\ _a = 239
    /\ _p = 189

\* ---- C33
IsShift == StepCmd \in {OPasl, OPlsr, OProl, OPror}

\* the byte a shift or rotate works on
ShiftOperand == IF StepMode = MODE_ACC THEN _a ELSE Seen(EffAddr)

\* the bit that leaves the byte: bit 7 to the left, bit 0 to the right
ShiftedOut == IF StepCmd \in {OPasl, OProl} THEN Bit(ShiftOperand, 7) ELSE Bit(ShiftOperand, 0)

\* C33 as the specification states it: after ASL, LSR, ROL and ROR, on the
\* accumulator or on memory, C holds the bit shifted out of the operand, N is
\* bit 7 of the 8-bit result written back, and Z is set iff that 8-bit result
\* is zero.
C33_ShiftFlags ==
    [][ (CpuStep /\ IsShift)
            => /\ Bit(_p', 0) = ShiftedOut
               /\ Bit(_p', 7) = Bit(Modified(ShiftOperand), 7)
               /\ (Bit(_p', 1) = 1) = (Modified(ShiftOperand) = 0) ]_vars

\* what the step does do: C and N as stated, and Z as stated but for ASL,
\* which sets Z iff the result with the bit shifted out, nine bits, is zero
C33_ShiftFlagsNineBits ==
    [][ (CpuStep /\ IsShift)
            => /\ Bit(_p', 0) = ShiftedOut
               /\ Bit(_p', 7) = Bit(Modified(ShiftOperand), 7)
               /\ (Bit(_p', 1) = 1) = IF StepCmd = OPasl
                                      THEN ShiftOperand = 0
                                      ELSE Modified(ShiftOperand) = 0 ]_vars

\* ---- C34
\* the bytes a step pushes, in the order it pushes them
Pushed ==
    CASE StepCmd = OPpha -> << _a >>
      [] StepCmd = OPphp -> << _p >>
      [] StepCmd = OPjsr -> << (U16(_pc + 1) + 1) % 256, ((U16(_pc + 1) + 1) \div 256) % 256 >>
      [] StepCmd = OPbrk -> << U16(_pc + 1) % 256, U16(_pc + 1) \div 256, _p >>
      [] OTHER -> << >>

\* the number of bytes a step pulls
Pulls ==
    CASE StepCmd \in {OPpla, OPplp} -> 1
      [] StepCmd = OPrts -> 2
      [] StepCmd = OPrti -> 3
      [] OTHER -> 0

\* the cell of the k-th push and of the k-th pull of a step
PushCell(k) == 256 + ((_s + 256 - (k - 1)) % 256)

PullCell(k) == 256 + ((_s + k) % 256)

\* the address space with the first n of the bytes pushed in their cells
RECURSIVE WithPushed(_, _)
WithPushed(mem, n) ==
    IF n = 0 THEN mem ELSE MemPut(WithPushed(mem, n - 1), PushCell(n), Pushed[n])

\* C34: every stack access lies in $0100-$01FF.  A push stores at $0100 + SP
\* and then decrements SP modulo 256, so a push at SP = $00 leaves SP = $FF;
\* a pull increments SP modulo 256 and then reads $0100 + SP, so a pull at
\* SP = $FF reads $0100.  This holds for PHA, PHP, JSR and BRK, for PLA, PLP,
\* RTS and RTI, and for the two bytes callAndRun pushes before the run.
C34_StackPage ==
    /\ [][ (CpuStep /\ Len(Pushed) > 0)
             => /\ _s' = (_s + 256 - Len(Pushed)) % 256
                /\ _memory' = WithPushed(IF StepCmd = OPjsr THEN AfterReads(OperandCells)
                                         ELSE _memory, Len(Pushed)) ]_vars
    /\ [][ (CpuStep /\ Pulls > 0)
             => /\ _s' = (_s + Pulls) % 256
                /\ _memory' = _memory
                /\ StepCmd = OPpla => _a' = MemGet(_memory, PullCell(1))
                /\ StepCmd \in {OPplp, OPrti} => _p' = MemGet(_memory, PullCell(1))
                /\ StepCmd = OPrts
                     => _pc' = 256 * MemGet(_memory, PullCell(1)) + MemGet(_memory, PullCell(2))
                /\ StepCmd = OPrti
                     => _pc' = 256 * MemGet(_memory, PullCell(2)) + MemGet(_memory, PullCell(3)) ]_vars
    /\ [](\A entry \in {0, 4096} :
             /\ cpuJsr(State, entry, _a).s = 253
             /\ cpuJsr(State, entry, _a).mem = MemPut(MemPut(_memory, 511, 0), 510, 0))

\* PHA at SP = $00 has stored A at $0100 and left SP = $FF
C34_WitnessPush ==
    /\ mainPc = "stepped"
    /\ StepOp = 72
    /\ RegFiles[callLog[1][6]].s = 0
    /\ _s = 255
    /\ MemGet(_memory, 256) = _a
    /\ _a = 128

\* PLA at SP = $FF has read the byte at $0100 and left SP = $00
C34_Witness ==
    /\ mainPc = "stepped"
    /\ StepOp = 104
    /\ RegFiles[callLog[1][6]].s = 255
    /\ _s = 0
    /\ _a = Fill(256)

\* ---- C35
\* the machine after the step, with an RTI as the instruction at its program
\* counter
AtRti == [State EXCEPT !.mem = MemPut(@, _pc, 64)]

\* C35: BRK pushes the return address and the status (three bytes, SP goes
\* down by 3 modulo 256), sets the B flag and continues at the little-endian
\* vector at $FFFE/$FFFF; an RTI executed with the stack as BRK left it
\* restores the pushed status byte, the pushed return address and the stack
\* pointer BRK found.
C35_BrkRti ==
    [][ (CpuStep /\ StepCmd = OPbrk)
            => /\ _s' = (_s + 253) % 256
               /\ _memory' = WithPushed(_memory, 3)
               /\ _p' = Or8(_p, FLAG_B)
               /\ _pc' = MemGet(_memory, 65534) + 256 * MemGet(_memory, 65535)
               /\ cpuStep(AtRti').p = _p
               /\ cpuStep(AtRti').pc = U16(_pc + 1)
               /\ cpuStep(AtRti').s = _s
               /\ cpuStep(AtRti').mem = AtRti'.mem ]_vars

\* BRK at $0280 with SP = $00 and P = $40 has pushed $81, $02 and $40 at
\* $0100, $01FF and $01FE, set B and gone to the vector; an RTI there comes
\* back to $0281 with P = $40 and SP = $00
C35_Witness ==
    /\ mainPc = "stepped"
    /\ StepOp = 0
    /\ StepAt = 640
    /\ RegFiles[callLog[1][6]].s = 0
    /\ _s = 253
    /\ _p = 80
    /\ MemGet(_memory, 256) = 129
    /\ MemGet(_memory, 511) = 2
    /\ MemGet(_memory, 510) = 64
    /\ _pc = Fill(65534) + 256 * Fill(65535)
    /\ cpuStep(AtRti).pc = 641
    /\ cpuStep(AtRti).p = 64
    /\ cpuStep(AtRti).s = 0

\* ---- C36
\* a tick has been delivered since the update() in progress was called
TickDuringRun == mainPc = "update" /\ ticksSince > callLog[1][2]

\* C36 as the specification states it: a tick delivered by timerCallback()
\* while update() is executing the play routine is still pending when that
\* update() returns, so that the following update() invokes the play routine.
C36_TickDuringRunPending ==
    [][ (UpdateReturn /\ TickDuringRun) => (_timerTick' /\ updateRuns(State')) ]_vars

\* what the return of update() does do: the tick flag is clear, whenever the
\* ticks came, and the following update() does not invoke the play routine
C36_TickDuringRunLost ==
    [][ (UpdateReturn /\ TickDuringRun) => (~_timerTick' /\ ~updateRuns(State')) ]_vars

\* ---- C37
IsLoad == StepCmd \in {OPlda, OPldx, OPldy}

\* the register a load has loaded
LoadTarget == CASE StepCmd = OPlda -> _a [] StepCmd = OPldx -> _x [] OTHER -> _y

\* the effective address, every sum reduced as the claim says
WrappedAddr ==
    CASE StepMode = MODE_ZP -> Operand1
      [] StepMode = MODE_ABS -> Operand1 + 256 * Operand2
      [] StepMode = MODE_ABSX -> (Operand1 + 256 * Operand2 + _x) % 65536
      [] StepMode = MODE_ABSY -> (Operand1 + 256 * Operand2 + _y) % 65536
      [] StepMode = MODE_ZPX -> (Operand1 + _x) % 256
      [] StepMode = MODE_ZPY -> (Operand1 + _y) % 256
      [] StepMode = MODE_INDX ->
            Seen((Operand1 + _x) % 256) + 256 * Seen((Operand1 + _x + 1) % 256)
      [] StepMode = MODE_INDY ->
            (Seen(Operand1) + 256 * Seen((Operand1 + 1) % 256) + _y) % 65536

\* C37: address arithmetic is modular.  The effective address of absolute,X,
\* absolute,Y and (zp),Y is base + index modulo 65536 and the program counter
\* advances modulo 65536; the effective address of zp,X and zp,Y is operand +
\* index modulo 256, and the two bytes of the pointer of (zp,X) and (zp),Y
\* are fetched from zp and zp + 1 modulo 256.  A load reads that address and
\* a store writes it.
C37_AddressWrap ==
    [][ (CpuStep /\ (IsLoad \/ IsStore) /\ StepMode # MODE_IMM)
            => /\ _pc' = (_pc + 1 + OperandBytes(StepMode)) % 65536
               /\ IsLoad => LoadTarget' = Seen(WrappedAddr)
               /\ IsStore => MemGet(_memory', WrappedAddr) = StoredReg ]_vars

\* LDA $FFFF,X at $FFFF with X = $FF has taken its operand bytes from $0000
\* and $0001, read $00FE and left the program counter at $0002
C37_Witness ==
    /\ mainPc = "stepped"
    /\ StepOp = 189
    /\ StepAt = 65535
    /\ callLog[1][4] = 255
    /\ callLog[1][5] = 255
    /\ _x = 255
    /\ _a = 64
    /\ _pc = 2

\* LDA ($FF),Y with Y = 1 has fetched its pointer from $00FF and $0000 and
\* read $FFFF
C37_WitnessPointer ==
    /\ mainPc = "stepped"
    /\ StepOp = 177
    /\ StepAt = 640
    /\ callLog[1][4] = 255
    /\ _y = 1
    /\ MemGet(_memory, 255) = 254
    /\ MemGet(_memory, 0) = 255
    /\ _a = Fill(65535)

\* ---- C38
\* a step that is a call of parseSIDHeader with a buffer it accepts
ParseAccepts ==
    /\ NextParse
    /\ Len(callLog'[1][2]) >= 124
    /\ MagicOk(callLog'[1][2])

\* the buffer of the call, its data offset, and the load address and payload
\* length of the copy
Parsed == callLog[1][2]

ParsedOffset == At(Parsed, 7)

\* C38 as the specification states it: for every buffer the parser accepts,
\* the image copy reads only inside the buffer and writes only inside the
\* 65536-byte address space: the data offset + 2 does not exceed the buffer
\* length, the payload length is not negative, and load address + payload
\* length does not exceed 65536.
C38_CopyInBounds ==
    [][ ParseAccepts
            => /\ ParsedOffset' + 2 <= Len(Parsed')
               /\ Len(Parsed') - ParsedOffset' - 2 >= 0
               /\ EmbeddedLoad(Parsed') + (Len(Parsed') - ParsedOffset' - 2) <= 65536
               /\ mainPc' = "parsed"
               /\ DOMAIN _memory' \subseteq 0 .. 65535 ]_vars

\* where the three conditions hold the call does what the claim says: the
\* payload, and nothing else, lies at the load address
C38_CopyWhenConsistent ==
    [][ (ParseAccepts /\ CopyInside(Parsed'))
            => /\ mainPc' = "parsed"
               /\ _memory' = MemCopy(ZeroMem, EmbeddedLoad(Parsed'), Parsed', ParsedOffset' + 2,
                                     Len(Parsed') - ParsedOffset' - 2)
               /\ DOMAIN _memory' \subseteq 0 .. 65535 ]_vars

\* ---- C39
\* the 16-bit operand of the instruction
OperandPointer == Operand1 + 256 * Operand2

\* C39: an indirect JMP takes the low byte of the program counter from
\* memory[ptr] and the high byte from memory[(ptr + 1) mod 65536], also when
\* the low byte of ptr is $FF (no page-wrap quirk); an absolute JMP sets the
\* program counter to its operand; neither changes a register, a flag or the
\* stack.
C39_JmpTargets ==
    [][ (CpuStep /\ StepCmd = OPjmp)
            => /\ StepMode = MODE_ABS => _pc' = OperandPointer
               /\ StepMode = MODE_IND
                    => _pc' = Seen(OperandPointer) + 256 * Seen((OperandPointer + 1) % 65536)
               /\ StepMode \in {MODE_ABS, MODE_IND}
               /\ << _a, _x, _y, _s, _p >>' = << _a, _x, _y, _s, _p >>
               /\ \A k \in 256 .. 511 : MemGet(_memory', k) = MemGet(_memory, k) ]_vars

\* JMP ($D7FF) has taken the low byte from $D7FF and the high byte from $D800
C39_Witness ==
    /\ mainPc = "stepped"
    /\ StepOp = 108
    /\ StepAt = 640
    /\ callLog[1][4] = 255
    /\ callLog[1][5] = 215
    /\ MemGet(_memory, 55040) # Fill(55296)
    /\ _pc = Fill(55295) + 256 * Fill(55296)

\* ---- C40
\* the device register writes in a call record
RegisterWrites(log) == SelectSeq(log, LAMBDA e : e[1] = "writeReg")

\* C40: update() writes the 14 registers of a frame to the device and
\* advances the file position only when the player is playing and not paused,
\* and then it does so whenever the open file holds a frame; in every other
\* state (never played, stopped, paused, no file open) update() writes
\* nothing to the device and leaves the file position where it was.  stop()
\* always leaves _playing and _paused false.
C40_UpdateOnlyWhilePlaying ==
    /\ [][ YmUpdate
             => IF ymPlayer.playing /\ ~ymPlayer.paused
                THEN /\ ymPlayer.file # 0
                     /\ IF YmSizes[ymPlayer.file] >= sizeofYMFrame
                        THEN /\ Len(RegisterWrites(callLog')) = 14
                             /\ \A i \in 1 .. 14 : RegisterWrites(callLog')[i][2] = i - 1
                             /\ ymPlayer'.pos =
                                   IF YmSizes[ymPlayer.file] - ymPlayer.pos >= sizeofYMFrame
                                   THEN ymPlayer.pos + sizeofYMFrame ELSE sizeofYMFrame
                        ELSE Len(RegisterWrites(callLog')) = 0
                ELSE /\ callLog' = << <<"update">> >>
                     /\ ymPlayer' = ymPlayer ]_vars
    /\ [][ YmStop => (~ymPlayer'.playing /\ ~ymPlayer'.paused) ]_vars
    /\ [](ymPlayer.file = 0 => ~ymPlayer.playing)

\* update() has written the second frame of the 40-byte file: 14 register
\* writes, the position at 32
C40_Witness ==
    /\ callLog # << >>
    /\ callLog[1] = <<"update">>
    /\ Len(callLog) = 15
    /\ ymPlayer.file = 1
    /\ ymPlayer.pos = 32
    /\ ymPlayer.playing
    /\ ~ymPlayer.paused

\* update() called while paused in mid-file has written nothing and has left
\* the position where it was
C40_WitnessPaused ==
    /\ callLog = << <<"update">> >>
    /\ ymPlayer.playing
    /\ ymPlayer.paused
    /\ ymPlayer.pos = 16

====
